---- MODULE Spec2Model ----
(***************************************************************************)
(* A model of the commands of harvest-cli.  The list command (cmd/list.go)  *)
(* with the configuration accessors it uses (pkg/config/config.go): the    *)
(* resolution of the day / week / month / year period, the navigation      *)
(* between periods, the aggregation of the fetched time entries and the    *)
(* capacity arithmetic.  The delete command (cmd/delete.go): its selection *)
(* loop, its confirmation and its direct mode.  The create command with    *)
(* parseDuration, the update command (cmd/update.go) and the config        *)
(* command (cmd/config.go), each up to the calls it makes of the client    *)
(* (pkg/harvest/client.go).                                                *)
(*                                                                         *)
(* A time.Time is an integer number of ticks, TicksPerDay ticks to the     *)
(* day, day 0 being 1970-01-01: tick 0 of a day is midnight, a later tick  *)
(* is a moment during that day (time.Now()).  All times are in one         *)
(* location.  A float64 is a binary floating-point number with             *)
(* FloatPrecision significant bits and round-to-nearest-even; hours are    *)
(* counted in a fixed unit, so a value is an integer number of units.      *)
(***************************************************************************)
EXTENDS Integers, Sequences, FiniteSets, TLC

(***************************************************************************)
(* Bounds of the model.                                                    *)
(***************************************************************************)
FirstYear == 2023
NumYears == 2
MaxDurationLen == 5
MaxMembers == 2
TicksPerDay == 2
FloatPrecision == 8
UnitsPerHour == 4
MaxEntries == 3
MaxNav == 2

(***************************************************************************)
(* package time: the calendar arithmetic of time.Date, Time.AddDate,       *)
(* Time.Year/Month/Day/Weekday, Time.Before/After/Equal, Time.Format.      *)
(***************************************************************************)
Max(a, b) == IF a >= b THEN a ELSE b
Min(a, b) == IF a <= b THEN a ELSE b
Abs(a) == IF a >= 0 THEN a ELSE -a

IsLeap(y) == (y % 4 = 0) /\ ((y % 100 # 0) \/ (y % 400 = 0))

\* leap years in 1..y
LeapsThrough(y) == (y \div 4) - (y \div 100) + (y \div 400)

\* days from 1970-01-01 to the first of January of year y
DaysBeforeYear(y) == 365 * (y - 1970) + LeapsThrough(y - 1) - LeapsThrough(1969)

\* days of a non-leap year before the first of month m (1..13)
DaysBefore(m) == <<0, 31, 59, 90, 120, 151, 181, 212, 243, 273, 304, 334, 365>>[m]

DaysIn(y, m) == IF m = 2 /\ IsLeap(y) THEN 29 ELSE DaysBefore(m + 1) - DaysBefore(m)

\* The day number of time.Date(y, m, d, ...): the month is normalised into
\* the year, the day is added as it is, so that October 32 is November 1
\* and February 30 is March 1 or 2.
DayNumber(y, m, d) ==
    LET m0 == m - 1
        yy == y + (m0 \div 12)
        mm == (m0 % 12) + 1
    IN  DaysBeforeYear(yy) + DaysBefore(mm)
          + (IF IsLeap(yy) /\ mm >= 3 THEN 1 ELSE 0) + (d - 1)

\* time.Date(y, m, d, 0, 0, 0, 0, loc)
Date(y, m, d) == DayNumber(y, m, d) * TicksPerDay

DayOf(t) == t \div TicksPerDay
TodOf(t) == t % TicksPerDay

\* the civil date <<year, month, day>> of day number n
CivilOfDay(n) ==
    LET adj(y, mm) == DaysBefore(mm) + (IF IsLeap(y) /\ mm >= 3 THEN 1 ELSE 0)
        date(y, m, yd) == <<y, m, yd - adj(y, m) + 1>>
        inYear(y, yd) ==
            date(y, CHOOSE mm \in 1 .. 12 : adj(y, mm) <= yd /\ yd < adj(y, mm + 1), yd)
        ofYear(y) == inYear(y, n - DaysBeforeYear(y))
        from(y0) ==
            ofYear(CHOOSE yy \in y0 .. (y0 + 2) :
                      DaysBeforeYear(yy) <= n /\ n < DaysBeforeYear(yy + 1))
    IN  from(1970 + (n \div 366))

\* the days the model can reach, tabulated once
CivilTable ==
    [n \in DayNumber(FirstYear - 3, 1, 1) .. DayNumber(FirstYear + NumYears + 3, 1, 1) |->
        CivilOfDay(n)]

YearOfDay(n) == CivilTable[n][1]
MonthOfDay(n) == CivilTable[n][2]
DomOfDay(n) == CivilTable[n][3]

\* Time.Year(), Time.Month(), Time.Day()
Year(t) == YearOfDay(DayOf(t))
Month(t) == MonthOfDay(DayOf(t))
Day(t) == DomOfDay(DayOf(t))

\* Time.Weekday(): Sunday = 0 ... Saturday = 6 (1970-01-01 was a Thursday)
Weekday(t) == (DayOf(t) + 4) % 7

\* Time.AddDate(years, months, days): the date fields are added and the
\* result normalised as by time.Date; the time of day is kept.
AddDate(t, years, months, days) ==
    DayNumber(Year(t) + years, Month(t) + months, Day(t) + days) * TicksPerDay + TodOf(t)

Before(t, u) == t < u
After(t, u) == t > u
Equal(t, u) == t = u

\* Time.Format("2006-01-02"): the calendar date, the time of day dropped
Format(t) == <<Year(t), Month(t), Day(t)>>

(***************************************************************************)
(* float64: a value is an integer number of units (a quarter of an hour,   *)
(* UnitsPerHour to the hour); every operation rounds its exact result to   *)
(* FloatPrecision significant bits, ties to even, as IEEE 754 does with 53.*)
(***************************************************************************)
Pow2(k) == 2 ^ k

BitLen(n) == CHOOSE k \in 0 .. 60 : (k = 0 /\ n = 0) \/ (k > 0 /\ Pow2(k - 1) <= n /\ n < Pow2(k))

FRound(n) ==
    LET signed(res) == IF n < 0 THEN -res ELSE res
        rounded(q, r, half, shift) ==
            signed((IF (r > half) \/ (r = half /\ q % 2 = 1) THEN q + 1 ELSE q) * Pow2(shift))
        shifted(mag, shift) ==
            rounded(mag \div Pow2(shift), mag % Pow2(shift), Pow2(shift - 1), shift)
        sized(mag, bits) ==
            IF bits <= FloatPrecision THEN n ELSE shifted(mag, bits - FloatPrecision)
        of(mag) == sized(mag, BitLen(mag))
    IN  of(Abs(n))

IsFloat(n) == FRound(n) = n

\* a + b and a - b on float64
FAdd(a, b) == FRound(a + b)
FSub(a, b) == FRound(a - b)

\* the float64 nearest to the quotient n / d of two integers (d > 0), ties to even
FRoundRat(n, d) ==
    LET signed(res) == IF n < 0 THEN -res ELSE res
        rounded(q, r, dd, shift) ==
            signed((IF (2 * r > dd) \/ (2 * r = dd /\ q % 2 = 1) THEN q + 1 ELSE q)
                     * Pow2(shift))
        divided(mag, dd, shift) == rounded(mag \div dd, mag % dd, dd, shift)
        shifted(mag, shift) == divided(mag, d * Pow2(shift), shift)
        sized(mag, bits) ==
            shifted(mag, IF bits > FloatPrecision THEN bits - FloatPrecision ELSE 0)
        of(mag) == sized(mag, BitLen(mag \div d))
    IN  of(Abs(n))

\* a * b on float64, b counted in quanta of 1 / scale
FMul(a, b, scale) == FRoundRat(a * b, scale)

\* a / b on float64 for b # 0, the quotient counted in quanta of 1 / scale
FDiv(a, b, scale) == IF b < 0 THEN FRoundRat(-(a * scale), -b) ELSE FRoundRat(a * scale, b)

\* a ratio is counted in quanta of 1 / RatioUnits
RatioUnits == Pow2(FloatPrecision + 4)

\* (hours / denominator) * 100 on float64: a division by zero is no panic,
\* it gives NaN for 0 / 0 and +Inf for a positive numerator, and the
\* product with 100 stays NaN or +Inf
Percent(hours, denominator) ==
    IF denominator = 0
    THEN [class |-> IF hours = 0 THEN "NaN" ELSE IF hours > 0 THEN "+Inf" ELSE "-Inf",
          value |-> 0]
    ELSE [class |-> "finite", value |-> FRound(FDiv(hours, denominator, RatioUnits) * 100)]

MapAdd_Overwrite(m, k, h) == [x \in (DOMAIN m) \cup {k} |-> IF x = k THEN h ELSE m[x]]

\* m[k] += h on a map[string]float64: a missing key reads as 0
MapAdd(m, k, h) ==
    IF k \in DOMAIN m THEN [m EXCEPT ![k] = FAdd(@, h)]
    ELSE [x \in (DOMAIN m) \cup {k} |-> IF x = k THEN FAdd(0, h) ELSE m[x]]

EmptyMap == [x \in {} |-> 0]

(***************************************************************************)
(* pkg/config: the loaded configuration and its accessors.  A string is a  *)
(* sequence of one-character strings.                                      *)
(***************************************************************************)
Digits == <<"0", "1", "2", "3", "4", "5", "6", "7", "8", "9">>

IsDigit(c) == \E i \in 1 .. 10 : Digits[i] = c

DigitVal(c) == (CHOOSE i \in 1 .. 10 : Digits[i] = c) - 1

\* strings.Split(s, sep) for a one-character separator
RECURSIVE Split(_, _)
Split(s, sep) ==
    IF \A i \in 1 .. Len(s) : s[i] # sep THEN <<s>>
    ELSE LET i == CHOOSE j \in 1 .. Len(s) : s[j] = sep /\ \A k \in 1 .. (j - 1) : s[k] # sep
         IN  <<SubSeq(s, 1, i - 1)>> \o Split(SubSeq(s, i + 1, Len(s)), sep)

RECURSIVE DigitsVal(_)
DigitsVal(s) == IF s = <<>> THEN 0 ELSE 10 * DigitsVal(SubSeq(s, 1, Len(s) - 1)) + DigitVal(s[Len(s)])

\* strconv.Atoi: an optional sign and at least one decimal digit
Atoi(s) ==
    LET signed == s # <<>> /\ s[1] \in {"+", "-"}
        body == IF signed THEN Tail(s) ELSE s
    IN  IF body = <<>> \/ \E i \in 1 .. Len(body) : ~IsDigit(body[i])
        THEN [ok |-> FALSE, val |-> 0]
        ELSE [ok |-> TRUE, val |-> IF signed /\ s[1] = "-" THEN -DigitsVal(body) ELSE DigitsVal(body)]

GetYearStartDate_NoDayBound(c) ==
    IF c.YearStartDate = <<>> THEN [month |-> 1, day |-> 1, err |-> FALSE]
    ELSE LET parts == Split(c.YearStartDate, "-")
         IN  IF Len(parts) # 2 THEN [month |-> 0, day |-> 0, err |-> TRUE]
             ELSE LET month == Atoi(parts[1])
                      day == Atoi(parts[2])
                  IN  IF ~month.ok \/ month.val < 1 \/ month.val > 12
                      THEN [month |-> 0, day |-> 0, err |-> TRUE]
                      ELSE IF ~day.ok \/ day.val < 1
                      THEN [month |-> 0, day |-> 0, err |-> TRUE]
                      ELSE [month |-> month.val, day |-> day.val, err |-> FALSE]

\* Config.GetYearStartDate
GetYearStartDate(c) ==
    IF c.YearStartDate = <<>> THEN [month |-> 1, day |-> 1, err |-> FALSE]
    ELSE LET parts == Split(c.YearStartDate, "-")
         IN  IF Len(parts) # 2 THEN [month |-> 0, day |-> 0, err |-> TRUE]
             ELSE LET month == Atoi(parts[1])
                      day == Atoi(parts[2])
                  IN  IF ~month.ok \/ month.val < 1 \/ month.val > 12
                      THEN [month |-> 0, day |-> 0, err |-> TRUE]
                      ELSE IF ~day.ok \/ day.val < 1 \/ day.val > 31
                      THEN [month |-> 0, day |-> 0, err |-> TRUE]
                      ELSE [month |-> month.val, day |-> day.val, err |-> FALSE]

DefaultMonthlyCapacityHours == 160

\* Config.GetMonthlyCapacityHours, in units
GetMonthlyCapacityHours(c) ==
    IF c.MonthlyCapacityHours <= 0 THEN DefaultMonthlyCapacityHours * UnitsPerHour
    ELSE c.MonthlyCapacityHours

IsBillableTask_NoSentinel(c, taskID) ==
    \E i \in 1 .. Len(c.BillableTaskIDs) : c.BillableTaskIDs[i] = taskID

\* Config.IsBillableTask
IsBillableTask(c, taskID) ==
    IF Len(c.BillableTaskIDs) = 0 THEN TRUE
    ELSE \E i \in 1 .. Len(c.BillableTaskIDs) : c.BillableTaskIDs[i] = taskID

(***************************************************************************)
(* cmd/list.go: the period of each view.                                   *)
(***************************************************************************)
StartOfWeek_SundayFirst(targetDate) ==
    AddDate(targetDate, 0, 0, -(Weekday(targetDate) - 1))

\* handleWeeklySummary: the Monday on or before targetDate
StartOfWeek(targetDate) ==
    LET wd == Weekday(targetDate)
        weekday == IF wd = 0 THEN 7 ELSE wd
    IN  AddDate(targetDate, 0, 0, -(weekday - 1))

\* showWeeklySummary: endDate
EndOfWeek(startDate) == AddDate(startDate, 0, 0, 6)

\* handleMonthlySummary: startOfMonth
StartOfMonth(targetDate) == Date(Year(targetDate), Month(targetDate), 1)

EndOfMonth_NextFirst(startDate) == AddDate(startDate, 0, 1, 0)

\* showMonthlySummary: endDate
EndOfMonth(startDate) == AddDate(startDate, 0, 1, -1)

YearStart_NoShift(targetDate, startMonth, startDay) ==
    Date(Year(targetDate), startMonth, startDay)

\* the year start taken from the year before also on the day of the start
YearStart_ShiftOnEqual(targetDate, startMonth, startDay) ==
    LET shifted(currentYear, yearStart) ==
            IF ~After(targetDate, yearStart) THEN Date(currentYear - 1, startMonth, startDay)
            ELSE yearStart
        in(currentYear) == shifted(currentYear, Date(currentYear, startMonth, startDay))
    IN  in(Year(targetDate))

\* handleYearlySummary: yearStart
YearStart(targetDate, startMonth, startDay) ==
    LET shifted(currentYear, yearStart) ==
            IF Before(targetDate, yearStart) THEN Date(currentYear - 1, startMonth, startDay)
            ELSE yearStart
        in(currentYear) == shifted(currentYear, Date(currentYear, startMonth, startDay))
    IN  in(Year(targetDate))

YearEnd_NoClamp(yearStart, startMonth, startDay, now) ==
    AddDate(Date(Year(yearStart) + 1, startMonth, startDay), 0, 0, -1)

\* handleYearlySummary: yearEnd
YearEnd(yearStart, startMonth, startDay, now) ==
    LET clamped(yearEnd) == IF After(yearEnd, now) THEN now ELSE yearEnd
    IN  clamped(AddDate(Date(Year(yearStart) + 1, startMonth, startDay), 0, 0, -1))

\* fmt.Sprintf("%d", n) for n >= 0
RECURSIVE Itoa(_)
Itoa(n) == IF n < 10 THEN <<Digits[n + 1]>> ELSE Itoa(n \div 10) \o <<Digits[(n % 10) + 1]>>

YearLabel_AlwaysSpan(yearStart, startMonth, startDay) ==
    Itoa(Year(yearStart)) \o <<"/">> \o Itoa(Year(yearStart) + 1)

\* handleYearlySummary: yearLabel
YearLabel(yearStart, startMonth, startDay) ==
    LET yearLabel == Itoa(Year(yearStart)) \o <<"/">> \o Itoa(Year(yearStart) + 1)
    IN  IF startMonth = 1 /\ startDay = 1 THEN Itoa(Year(yearStart)) ELSE yearLabel

(***************************************************************************)
(* cmd/list.go: calculateMonthsBetween.  The result                        *)
(* float64(completeMonths) + float64(end.Day()) / float64(daysInMonth) is  *)
(* kept as its three integers: whole + num / den (num = 0, den = 1 when    *)
(* there is no partial month).                                             *)
(***************************************************************************)
\* the loop "for currentMonth.Before(end)": completeMonths when it ends
RECURSIVE CountCompleteMonths(_, _, _)
CountCompleteMonths(currentMonth, end, completeMonths) ==
    IF ~Before(currentMonth, end) THEN completeMonths
    ELSE LET step(nextMonth) ==
                 CountCompleteMonths(nextMonth, end,
                     IF Before(nextMonth, end) \/ Equal(nextMonth, end)
                     THEN completeMonths + 1 ELSE completeMonths)
         IN  step(AddDate(currentMonth, 0, 1, 0))

calculateMonthsBetween_PartialOnEqual(start, end) ==
    IF Before(end, start) \/ Equal(end, start) THEN [whole |-> 0, num |-> 0, den |-> 1]
    ELSE LET counted(completeMonths) ==
                 IF ~After(AddDate(start, 0, completeMonths, 0), end)
                 THEN [whole |-> completeMonths, num |-> Day(end),
                       den |-> Day(Date(Year(end), Month(end) + 1, 0))]
                 ELSE [whole |-> completeMonths, num |-> 0, den |-> 1]
         IN  counted(CountCompleteMonths(Date(Year(start), Month(start), 1), end, 0))

calculateMonthsBetween(start, end) ==
    IF Before(end, start) \/ Equal(end, start) THEN [whole |-> 0, num |-> 0, den |-> 1]
    ELSE LET counted(completeMonths) ==
                 IF Before(AddDate(start, 0, completeMonths, 0), end)
                 THEN LET daysInMonth == Day(Date(Year(end), Month(end) + 1, 0))
                      IN  [whole |-> completeMonths, num |-> Day(end), den |-> daysInMonth]
                 ELSE [whole |-> completeMonths, num |-> 0, den |-> 1]
             from(currentMonth) == counted(CountCompleteMonths(currentMonth, end, 0))
         IN  from(Date(Year(start), Month(start), 1))

\* a number of months as a float64 is counted in quanta of 1 / MonthUnits
MonthUnits == Pow2(FloatPrecision + 4)

\* calculateMonthsBetween: the float64 it returns,
\* float64(completeMonths) + float64(end.Day()) / float64(daysInMonth)
MonthsFloat(p) == FAdd(FRound(p.whole * MonthUnits), FDiv(p.num, p.den, MonthUnits))

(***************************************************************************)
(* cmd/list.go: the aggregation of the fetched entries.  An entry is       *)
(* [project, taskID, task, hours]: Project.Name, Task.ID, Task.Name, Hours.*)
(***************************************************************************)
GroupEntry_AssignsTotal(projectSummaries, entry) ==
    LET projectName == entry.project
        summary == IF projectName \in DOMAIN projectSummaries THEN projectSummaries[projectName]
                   ELSE [ProjectName |-> projectName, TaskSummaries |-> EmptyMap, TotalHours |-> 0]
        updated == [summary EXCEPT !.TaskSummaries = MapAdd(@, entry.task, entry.hours),
                                   !.TotalHours = entry.hours]
    IN  [p \in (DOMAIN projectSummaries) \cup {projectName} |->
            IF p = projectName THEN updated ELSE projectSummaries[p]]

\* groupTimeEntriesByProject: the loop body for one entry
GroupEntry(projectSummaries, entry) ==
    LET projectName == entry.project
        exists == projectName \in DOMAIN projectSummaries
        summary == IF exists THEN projectSummaries[projectName]
                   ELSE [ProjectName |-> projectName, TaskSummaries |-> EmptyMap, TotalHours |-> 0]
        updated == [summary EXCEPT !.TaskSummaries = MapAdd(@, entry.task, entry.hours),
                                   !.TotalHours = FAdd(@, entry.hours)]
    IN  [p \in (DOMAIN projectSummaries) \cup {projectName} |->
            IF p = projectName THEN updated ELSE projectSummaries[p]]

RECURSIVE GroupFrom(_, _, _)
GroupFrom(projectSummaries, timeEntries, i) ==
    IF i > Len(timeEntries) THEN projectSummaries
    ELSE GroupFrom(GroupEntry(projectSummaries, timeEntries[i]), timeEntries, i + 1)

groupTimeEntriesByProject(timeEntries) == GroupFrom(EmptyMap, timeEntries, 1)

\* the counters and maps of showMonthlySummary / handleYearlySummary before the loop
EmptyTotals ==
    [totalHours |-> 0, billableHours |-> 0, taskSummaries |-> EmptyMap,
     billableTaskSummaries |-> EmptyMap, nonBillableTaskSummaries |-> EmptyMap,
     projectHours |-> EmptyMap]

ProcessEntry_BothBuckets(c, acc, entry) ==
    [acc EXCEPT !.taskSummaries = MapAdd(@, entry.task, entry.hours),
                !.projectHours = MapAdd(@, entry.project, entry.hours),
                !.totalHours = FAdd(@, entry.hours),
                !.billableHours = IF IsBillableTask(c, entry.taskID) THEN FAdd(@, entry.hours) ELSE @,
                !.billableTaskSummaries =
                    IF IsBillableTask(c, entry.taskID) THEN MapAdd(@, entry.task, entry.hours) ELSE @,
                !.nonBillableTaskSummaries = MapAdd(@, entry.task, entry.hours)]

\* "Process time entries": the loop body for one entry (the same in the
\* monthly and in the yearly summary)
ProcessEntry(c, acc, entry) ==
    LET billable == IsBillableTask(c, entry.taskID)
    IN  [acc EXCEPT !.taskSummaries = MapAdd(@, entry.task, entry.hours),
                    !.projectHours = MapAdd(@, entry.project, entry.hours),
                    !.totalHours = FAdd(@, entry.hours),
                    !.billableHours = IF billable THEN FAdd(@, entry.hours) ELSE @,
                    !.billableTaskSummaries =
                        IF billable THEN MapAdd(@, entry.task, entry.hours) ELSE @,
                    !.nonBillableTaskSummaries =
                        IF billable THEN @ ELSE MapAdd(@, entry.task, entry.hours)]

RECURSIVE ProcessFrom(_, _, _, _)
ProcessFrom(c, acc, timeEntries, i) ==
    IF i > Len(timeEntries) THEN acc
    ELSE ProcessFrom(c, ProcessEntry(c, acc, timeEntries[i]), timeEntries, i + 1)

ProcessEntries(c, timeEntries) == ProcessFrom(c, EmptyTotals, timeEntries, 1)

\* the names the model uses, in ascending lexicographic order (sort.Strings)
AllNames == <<"alpha", "beta", "dev", "ops">>

NameRank(name) == CHOOSE i \in 1 .. Len(AllNames) : AllNames[i] = name

\* "for name := range m { names = append(names, name) }": Go iterates a map
\* in an order of its own choice; an order is a sequence of all names, the
\* keys of m come as they stand in it
Reverse(q) == [i \in 1 .. Len(q) |-> q[Len(q) + 1 - i]]

MapOrders == {AllNames, Reverse(AllNames)}

RangeKeys(m, order) == LET IsKey(name) == name \in DOMAIN m IN SelectSeq(order, IsKey)

\* sort.Strings: one step of an insertion sort
RECURSIVE InsertString(_, _)
InsertString(sorted, name) ==
    IF sorted = <<>> THEN <<name>>
    ELSE IF NameRank(name) <= NameRank(Head(sorted)) THEN <<name>> \o sorted
    ELSE <<Head(sorted)>> \o InsertString(Tail(sorted), name)

SortStrings_Unsorted(names) == names

\* sort.Strings(names)
RECURSIVE SortStrings(_)
SortStrings(names) ==
    IF names = <<>> THEN <<>> ELSE InsertString(SortStrings(Tail(names)), Head(names))

\* showWeeklySummary: the inner loop over the sorted tasks of one project
RECURSIVE WeeklyTasksFrom(_, _, _, _)
WeeklyTasksFrom(taskHours, summary, taskNames, i) ==
    IF i > Len(taskNames) THEN taskHours
    ELSE WeeklyTasksFrom(MapAdd(taskHours, taskNames[i], summary.TaskSummaries[taskNames[i]]),
                         summary, taskNames, i + 1)

\* showWeeklySummary: the loop over the sorted projects; rows are the
\* (project, task) rows of the first table as they are printed
RECURSIVE WeeklyProjectsFrom(_, _, _, _, _)
WeeklyProjectsFrom(acc, projectSummaries, projectNames, i, order) ==
    IF i > Len(projectNames) THEN acc
    ELSE LET project(summary, taskNames) ==
                 WeeklyProjectsFrom(
                     [taskHours |-> WeeklyTasksFrom(acc.taskHours, summary, taskNames, 1),
                      totalHours |-> FAdd(acc.totalHours, summary.TotalHours),
                      rows |-> acc.rows \o [k \in 1 .. Len(taskNames) |->
                                               <<projectNames[i], taskNames[k]>>]],
                     projectSummaries, projectNames, i + 1, order)
         IN  project(projectSummaries[projectNames[i]],
                     SortStrings(RangeKeys(projectSummaries[projectNames[i]].TaskSummaries,
                                           order)))

WeeklyTotals_RangeOrder(timeEntries, order) ==
    LET printed(projectSummaries, projectNames, acc) ==
            [kind |-> "weekly", projectSummaries |-> projectSummaries,
             taskHours |-> acc.taskHours, totalHours |-> acc.totalHours,
             percentage |->
                 [t \in DOMAIN acc.taskHours |-> Percent(acc.taskHours[t], acc.totalHours)],
             projectNames |-> projectNames, rows |-> acc.rows,
             taskNames |-> SortStrings(RangeKeys(acc.taskHours, order))]
        summed(projectSummaries, projectNames) ==
            printed(projectSummaries, projectNames,
                    WeeklyProjectsFrom([taskHours |-> EmptyMap, totalHours |-> 0, rows |-> <<>>],
                                       projectSummaries, projectNames, 1, order))
        grouped(projectSummaries) ==
            summed(projectSummaries, RangeKeys(projectSummaries, order))
    IN  grouped(groupTimeEntriesByProject(timeEntries))

\* showWeeklySummary: what it computes and prints from a non-empty list of
\* entries
WeeklyTotals(timeEntries, order) ==
    LET printed(projectSummaries, projectNames, acc) ==
            [kind |-> "weekly", projectSummaries |-> projectSummaries,
             taskHours |-> acc.taskHours, totalHours |-> acc.totalHours,
             percentage |->
                 [t \in DOMAIN acc.taskHours |-> Percent(acc.taskHours[t], acc.totalHours)],
             projectNames |-> projectNames, rows |-> acc.rows,
             taskNames |-> SortStrings(RangeKeys(acc.taskHours, order))]
        summed(projectSummaries, projectNames) ==
            printed(projectSummaries, projectNames,
                    WeeklyProjectsFrom([taskHours |-> EmptyMap, totalHours |-> 0, rows |-> <<>>],
                                       projectSummaries, projectNames, 1, order))
        grouped(projectSummaries) ==
            summed(projectSummaries, SortStrings(RangeKeys(projectSummaries, order)))
    IN  grouped(groupTimeEntriesByProject(timeEntries))

\* handleDailyList: the loop over the entries
RECURSIVE DailyFrom(_, _, _)
DailyFrom(acc, timeEntries, i) ==
    IF i > Len(timeEntries) THEN acc
    ELSE DailyFrom([taskHours |-> MapAdd(acc.taskHours, timeEntries[i].task, timeEntries[i].hours),
                    totalHours |-> FAdd(acc.totalHours, timeEntries[i].hours)],
                   timeEntries, i + 1)

DailyTotals(timeEntries, order) ==
    LET printed(acc) ==
            [kind |-> "daily", taskHours |-> acc.taskHours, totalHours |-> acc.totalHours,
             percentage |->
                 [t \in DOMAIN acc.taskHours |-> Percent(acc.taskHours[t], acc.totalHours)],
             taskNames |-> SortStrings(RangeKeys(acc.taskHours, order))]
    IN  printed(DailyFrom([taskHours |-> EmptyMap, totalHours |-> 0], timeEntries, 1))

\* leaveDays := leaveHours / 8.0
HoursPerDay == 8

\* showMonthlySummary / handleYearlySummary: the capacity metrics.  Hours
\* are counted in units, days in quanta of 1 / (HoursPerDay * UnitsPerHour).
CapacityMetrics(c, periodLength, billableHours) ==
    LET metrics(monthlyCapacity, periodMonths, periodCapacity, leaveHours, leaveDays) ==
            [monthlyCapacity |-> monthlyCapacity, periodMonths |-> periodMonths,
             periodCapacity |-> periodCapacity, leaveHours |-> leaveHours,
             leaveDays |-> leaveDays, overtime |-> (leaveDays >= 0)]
        leave(monthlyCapacity, periodMonths, periodCapacity, leaveHours) ==
            metrics(monthlyCapacity, periodMonths, periodCapacity, leaveHours,
                    FDiv(leaveHours, HoursPerDay, HoursPerDay))
        capacity(monthlyCapacity, periodMonths, periodCapacity) ==
            leave(monthlyCapacity, periodMonths, periodCapacity,
                  FSub(billableHours, periodCapacity))
        months(monthlyCapacity, periodMonths) ==
            capacity(monthlyCapacity, periodMonths,
                     FMul(monthlyCapacity, periodMonths, MonthUnits))
    IN  months(GetMonthlyCapacityHours(c), MonthsFloat(periodLength))

\* showMonthlySummary / handleYearlySummary: the percentages of the
\* "Billable Tasks Summary" and "Project Summary" tables
Percentages(totals, periodCapacity) ==
    [billableTasks |->
        [t \in DOMAIN totals.billableTaskSummaries |->
            [percentOfTotal |-> Percent(totals.billableTaskSummaries[t], totals.totalHours),
             percentOfCapacity |-> Percent(totals.billableTaskSummaries[t], periodCapacity)]],
     totalBillable |->
        [percentOfTotal |-> Percent(totals.billableHours, totals.totalHours),
         percentOfCapacity |-> Percent(totals.billableHours, periodCapacity)],
     projects |->
        [q \in DOMAIN totals.projectHours |-> Percent(totals.projectHours[q], totals.totalHours)]]

PeriodReport_FromTotalHours(c, timeEntries, start, end, order) ==
    LET report(periodLength, totals, capacity) ==
            [kind |-> "report",
             periodLength |-> periodLength,
             capacity |-> capacity,
             percentages |-> Percentages(totals, capacity.periodCapacity),
             billableTaskNames |-> SortStrings(RangeKeys(totals.billableTaskSummaries, order)),
             projectNames |-> SortStrings(RangeKeys(totals.projectHours, order)),
             totals |-> totals]
        of(periodLength, totals) ==
            report(periodLength, totals, CapacityMetrics(c, periodLength, totals.totalHours))
    IN  of(calculateMonthsBetween(start, AddDate(end, 0, 0, 1)), ProcessEntries(c, timeEntries))

\* showMonthlySummary / handleYearlySummary: what they compute from a
\* non-empty list of entries for the period start .. end
PeriodReport(c, timeEntries, start, end, order) ==
    LET report(periodLength, totals, capacity) ==
            [kind |-> "report",
             periodLength |-> periodLength,
             capacity |-> capacity,
             percentages |-> Percentages(totals, capacity.periodCapacity),
             billableTaskNames |-> SortStrings(RangeKeys(totals.billableTaskSummaries, order)),
             projectNames |-> SortStrings(RangeKeys(totals.projectHours, order)),
             totals |-> totals]
        of(periodLength, totals) ==
            report(periodLength, totals, CapacityMetrics(c, periodLength, totals.billableHours))
    IN  of(calculateMonthsBetween(start, AddDate(end, 0, 0, 1)), ProcessEntries(c, timeEntries))

(***************************************************************************)
(* The commands as a state machine: one run of "harvest list" (or, with    *)
(* the actions of cmd/delete.go further down, of "harvest delete").        *)
(***************************************************************************)
VARIABLES
    clock,        \* time.Now()
    appConfig,    \* the configuration LoadConfig returned
    pc,           \* "start", "nav" (the navigation prompt), "select" and "confirm"
                  \* (the prompts of delete), "done", "fatal" (log.Fatalf)
    view,         \* "none", "day", "week", "month", "year", "delete"
    targetDate,   \* the reference date of the run
    startDate,    \* the period: week / month startDate, yearStart
    endDate,      \* the period: endDate, yearEnd
    params,       \* the "from" and "to" of the last GetTimeEntries call
    yearLabel,    \* the label of the yearly summary
    timeEntries,  \* what GetTimeEntries returned
    out,          \* what the view computed and printed
    navCount,     \* navigation choices made so far
    rerun,        \* "none", or how the command was run again: "same", "reordered"
    selectedIndices,  \* delete: the map[int]bool of the multi-selection loop
    input,        \* delete: the last line read from the terminal
    choice,       \* the item chosen at the last promptui.Select that asks what to
                  \* do next (navigation, delete, update)
    calls,        \* the calls of the Harvest client made so far
    locals        \* create, update: the local variables of the command's Run
                  \* that live across its prompts

vars == <<clock, appConfig, pc, view, targetDate, startDate, endDate, params, yearLabel,
          timeEntries, out, navCount, rerun, selectedIndices, input, choice, calls,
          locals>>

deleteVars == <<selectedIndices, input, choice, locals>>

NoOutput == [kind |-> "none"]

\* before a command declared its variables
NoLocals == [cmd |-> "none"]

\* a promptui.Select that returns an error
PromptFailed == "prompt failed"

\* a call of the client and whether it returned without an error; what is
\* the argument: the "from" and "to" of GetTimeEntries, the ID of the entry
\* of the other calls (an entry of a fetched list is named by its place in
\* the list, 0 the first, as its ID)
Call(op, id, ok) == [op |-> op, id |-> id, ok |-> ok]
NoEntries == [kind |-> "empty"]

\* what client.GetTimeEntries(params) returns: the entries, or an error
FetchError == [err |-> TRUE, entries |-> <<>>]
Fetched(fetches) == {[err |-> FALSE, entries |-> f] : f \in fetches} \cup {FetchError}

\* ---- the inputs of the model ----
Fmt2(n) == <<Digits[(n \div 10) + 1], Digits[(n % 10) + 1]>>
MMDD(m, d) == Fmt2(m) \o <<"-">> \o Fmt2(d)

ValidYearStarts ==
    {<<>>, MMDD(4, 1), MMDD(4, 6), MMDD(2, 29), MMDD(2, 30), MMDD(2, 31), MMDD(11, 31),
     MMDD(12, 31), <<"7", "-", "+", "1", "5">>}

InvalidYearStarts ==
    {MMDD(13, 1), MMDD(0, 10), MMDD(4, 32), <<"0", "4", "0", "1">>, <<"0", "4", "-", "x">>,
     <<"-", "4", "-", "0", "1">>}

AllDays == DayNumber(FirstYear, 1, 1) .. (DayNumber(FirstYear + NumYears, 1, 1) - 1)

\* -d YYYY-MM-DD parses to midnight of that day
AllDates == {d * TicksPerDay : d \in AllDays}

\* a moment during the last day of a month, and a midnight
Clocks == {Date(FirstYear + 1, 6, 30) + 1, Date(FirstYear, 12, 31)}

Entry(p, id, t, h) == [project |-> p, taskID |-> id, task |-> t, hours |-> h]

\* the entries the aggregation is checked on: two projects, a task name
\* under a billable and under another task ID, a second task name, and
\* hours whose sums are and are not floats
EntryValues ==
    {Entry("alpha", 1, "dev", 1), Entry("alpha", 1, "dev", Pow2(FloatPrecision)),
     Entry("alpha", 2, "dev", 1), Entry("alpha", 2, "ops", Pow2(FloatPrecision)),
     Entry("alpha", 2, "ops", 2), Entry("beta", 1, "dev", 1),
     Entry("beta", 2, "ops", 1), Entry("beta", 2, "ops", Pow2(FloatPrecision))}

\* a few lists GetTimeEntries may return
OneFetch == {<<>>, <<Entry("alpha", 1, "dev", 2)>>}
FewFetches == OneFetch \cup {<<Entry("beta", 2, "ops", 1), Entry("alpha", 1, "dev", 2)>>}

RECURSIVE SeqsUpTo(_, _)
SeqsUpTo(S, n) ==
    IF n = 0 THEN {<<>>}
    ELSE LET shorter == SeqsUpTo(S, n - 1)
         IN  shorter \cup {Append(q, x) : q \in {r \in shorter : Len(r) = n - 1}, x \in S}

BillableLists == {<<>>, <<1>>, <<3, 2>>}

ConfigOf(ys, cap, ids) ==
    [YearStartDate |-> ys, MonthlyCapacityHours |-> cap, BillableTaskIDs |-> ids]

\* config.LoadConfig on a config.json that is found and decodes to the
\* fields of decoded: the fields are returned as decoded, no value is validated
LoadConfig(decoded) == [err |-> FALSE, config |-> decoded]

InitWith(clocks, configs) ==
    /\ clock \in clocks
    /\ appConfig \in {LoadConfig(decoded).config : decoded \in configs}
    /\ pc = "start"
    /\ view = "none"
    /\ targetDate = 0
    /\ startDate = 0
    /\ endDate = 0
    /\ params = <<>>
    /\ yearLabel = <<>>
    /\ timeEntries = <<>>
    /\ out = NoOutput
    /\ navCount = 0
    /\ rerun = "none"
    /\ selectedIndices = EmptyMap
    /\ input = <<>>
    /\ choice = "none"
    /\ calls = <<>>
    /\ locals = NoLocals

\* ---- ListCmd.Run and the handlers ----
\* log.Fatalf before anything was resolved
Fatal(v, target) ==
    /\ pc' = "fatal"
    /\ view' = v
    /\ targetDate' = target
    /\ UNCHANGED <<startDate, endDate, params, yearLabel, timeEntries, out, navCount, calls>>

\* a view fetched the entries of start .. end and printed its output
Shown(v, start, end, label, fetched, output, nextPc) ==
    /\ view' = v
    /\ startDate' = start
    /\ endDate' = end
    /\ params' = [from |-> Format(start), to |-> Format(end)]
    /\ yearLabel' = label
    /\ calls' = Append(calls, Call("GetTimeEntries", [from |-> Format(start), to |-> Format(end)],
                                   ~fetched.err))
    /\ IF fetched.err
       THEN pc' = "fatal" /\ timeEntries' = <<>> /\ out' = NoOutput
       ELSE pc' = nextPc /\ timeEntries' = fetched.entries /\ out' = output

\* handleDailyList(client, targetDate.Format("2006-01-02"))
handleDailyList(date, fetched) ==
    \E order \in MapOrders :
        Shown("day", date, date, <<>>, fetched,
              IF Len(fetched.entries) = 0 THEN NoEntries ELSE DailyTotals(fetched.entries, order),
              "done")

\* showWeeklySummary(client, startDate)
showWeeklySummary(start, fetched) ==
    \E order \in MapOrders :
        Shown("week", start, EndOfWeek(start), <<>>, fetched,
              IF Len(fetched.entries) = 0 THEN NoEntries ELSE WeeklyTotals(fetched.entries, order),
              "nav")

showMonthlySummary_NoEmptyCheck(start, fetched) ==
    LET end == EndOfMonth(start)
    IN  \E order \in MapOrders :
            Shown("month", start, end, <<>>, fetched,
                  PeriodReport(appConfig, fetched.entries, start, end, order), "nav")

\* showMonthlySummary(client, startDate)
showMonthlySummary(start, fetched) ==
    LET end == EndOfMonth(start)
    IN  \E order \in MapOrders :
            Shown("month", start, end, <<>>, fetched,
                  IF Len(fetched.entries) = 0 THEN NoEntries
                  ELSE PeriodReport(appConfig, fetched.entries, start, end, order), "nav")

\* handleYearlySummary(client, targetDate)
handleYearlySummary(target, fetched) ==
    LET summary(ysd, yearStart, yearEnd) ==
            /\ targetDate' = target
            /\ UNCHANGED navCount
            /\ \E order \in MapOrders :
                   Shown("year", yearStart, yearEnd,
                         YearLabel(yearStart, ysd.month, ysd.day), fetched,
                         IF Len(fetched.entries) = 0 THEN NoEntries
                         ELSE PeriodReport(appConfig, fetched.entries, yearStart, yearEnd,
                                           order),
                         "done")
        from(ysd, yearStart) ==
            summary(ysd, yearStart, YearEnd(yearStart, ysd.month, ysd.day, clock))
        with(ysd) ==
            IF ysd.err THEN Fatal("year", target)
            ELSE from(ysd, YearStart(target, ysd.month, ysd.day))
    IN  with(GetYearStartDate(appConfig))

\* the reference dates of a run: -d with one of dates, or no -d (time.Now())
Targets(dates) == dates \cup {clock}

\* list -d <not a date>: time.Parse fails
ListBadDate ==
    /\ pc = "start"
    /\ \E v \in {"day", "week", "month", "year"} : Fatal(v, 0)
    /\ UNCHANGED <<clock, appConfig>>
    /\ UNCHANGED <<rerun, deleteVars>>

\* list [-d date]
ListDaily(dates, fetches) ==
    /\ pc = "start"
    /\ \E target \in Targets(dates), fetched \in Fetched(fetches) :
          /\ targetDate' = target
          /\ handleDailyList(Date(Year(target), Month(target), Day(target)), fetched)
    /\ UNCHANGED <<clock, appConfig, navCount>>
    /\ rerun' = "none"
    /\ UNCHANGED deleteVars

\* list -w [-d date]
ListWeekly(dates, fetches) ==
    /\ pc = "start"
    /\ \E target \in Targets(dates), fetched \in Fetched(fetches) :
          /\ targetDate' = target
          /\ showWeeklySummary(StartOfWeek(target), fetched)
    /\ UNCHANGED <<clock, appConfig, navCount>>
    /\ rerun' = "none"
    /\ UNCHANGED deleteVars

\* list -m [-d date]
ListMonthly(dates, fetches) ==
    /\ pc = "start"
    /\ \E target \in Targets(dates), fetched \in Fetched(fetches) :
          /\ targetDate' = target
          /\ showMonthlySummary(StartOfMonth(target), fetched)
    /\ UNCHANGED <<clock, appConfig, navCount>>
    /\ rerun' = "none"
    /\ UNCHANGED deleteVars

\* list -y [-d date]
ListYearly(dates, fetches) ==
    /\ pc = "start"
    /\ \E target \in Targets(dates), fetched \in Fetched(fetches) :
          handleYearlySummary(target, fetched)
    /\ UNCHANGED <<clock, appConfig>>
    /\ rerun' = "none"
    /\ UNCHANGED deleteVars

\* the navigation stepping from the last day of the period shown
Navigate_FromEnd(index, fetches) ==
    /\ pc = "nav"
    /\ navCount < MaxNav
    /\ navCount' = navCount + 1
    /\ \E fetched \in Fetched(fetches) :
          IF view = "week"
          THEN showWeeklySummary(AddDate(endDate, 0, 0, IF index = 0 THEN -7 ELSE 7), fetched)
          ELSE showMonthlySummary(AddDate(endDate, 0, IF index = 0 THEN -1 ELSE 1, 0), fetched)
    /\ UNCHANGED <<clock, appConfig, targetDate>>
    /\ rerun' = "none"
    /\ choice' = IF index = 0 THEN "Previous" ELSE "Next"
    /\ UNCHANGED <<selectedIndices, input, locals>>

\* handleSummaryNavigation: "Previous <period>" (index 0) or "Next <period>" (index 1)
Navigate(index, fetches) ==
    /\ pc = "nav"
    /\ navCount < MaxNav
    /\ navCount' = navCount + 1
    /\ \E fetched \in Fetched(fetches) :
          IF view = "week"
          THEN showWeeklySummary(AddDate(startDate, 0, 0, IF index = 0 THEN -7 ELSE 7), fetched)
          ELSE showMonthlySummary(AddDate(startDate, 0, IF index = 0 THEN -1 ELSE 1, 0), fetched)
    /\ UNCHANGED <<clock, appConfig, targetDate>>
    /\ rerun' = "none"
    /\ choice' = IF index = 0 THEN "Previous" ELSE "Next"
    /\ UNCHANGED <<selectedIndices, input, locals>>

NavPrevious(fetches) == Navigate(0, fetches)
NavNext(fetches) == Navigate(1, fetches)

\* the same command line run a second time at the same moment, the service
\* returning entries
RunAgain(entries, mark) ==
    /\ pc \in {"done", "nav"}
    /\ rerun = "none"
    /\ navCount = 0
    /\ out.kind \in {"daily", "weekly", "report"}
    /\ rerun' = mark
    /\ LET fetched == [err |-> FALSE, entries |-> entries]
       IN  CASE view = "day" ->
                  /\ handleDailyList(Date(Year(targetDate), Month(targetDate), Day(targetDate)),
                                     fetched)
                  /\ UNCHANGED <<targetDate, navCount>>
             [] view = "week" ->
                  /\ showWeeklySummary(StartOfWeek(targetDate), fetched)
                  /\ UNCHANGED <<targetDate, navCount>>
             [] view = "month" ->
                  /\ showMonthlySummary(StartOfMonth(targetDate), fetched)
                  /\ UNCHANGED <<targetDate, navCount>>
             [] view = "year" -> handleYearlySummary(targetDate, fetched)
    /\ UNCHANGED <<clock, appConfig, deleteVars>>

\* the orders in which the service may return the same entries
Reorderings(q) ==
    {[i \in 1 .. Len(q) |-> q[f[i]]] :
        f \in {g \in [1 .. Len(q) -> 1 .. Len(q)] : \A i, j \in 1 .. Len(q) : g[i] = g[j] => i = j}}

\* the command run again on the same list of entries
ListAgain == RunAgain(timeEntries, "same")

\* the command run again, the same entries returned in another order
ListReordered == \E entries \in Reorderings(timeEntries) \ {timeEntries} : RunAgain(entries, "reordered")

\* handleSummaryNavigation: "Exit", or the prompt failed
NavExit ==
    /\ pc = "nav"
    /\ pc' = "done"
    /\ choice' \in {"Exit", PromptFailed}
    /\ UNCHANGED <<clock, appConfig, view, targetDate, startDate, endDate, params, yearLabel,
                   timeEntries, out, navCount, rerun, selectedIndices, input, calls, locals>>

(***************************************************************************)
(* cmd/delete.go: one run of "harvest delete" in interactive mode.  The    *)
(* run stops where it reads the terminal: at the prompt of the selection   *)
(* loop (pc = "select") and at the confirmation (pc = "confirm").          *)
(***************************************************************************)
WhiteSpace == {" ", "\t", "\n", "\r"}

\* strings.TrimSpace
RECURSIVE TrimLeft(_)
TrimLeft(s) == IF s # <<>> /\ s[1] \in WhiteSpace THEN TrimLeft(Tail(s)) ELSE s

TrimSpace(s) == Reverse(TrimLeft(Reverse(TrimLeft(s))))

UpperCase == <<"A", "B", "C", "D", "E", "F", "G", "H", "I", "J", "K", "L", "M",
               "N", "O", "P", "Q", "R", "S", "T", "U", "V", "W", "X", "Y", "Z">>
LowerCase == <<"a", "b", "c", "d", "e", "f", "g", "h", "i", "j", "k", "l", "m",
               "n", "o", "p", "q", "r", "s", "t", "u", "v", "w", "x", "y", "z">>

\* strings.ToLower
ToLower(s) ==
    [i \in 1 .. Len(s) |->
        IF \E k \in 1 .. 26 : UpperCase[k] = s[i]
        THEN LowerCase[CHOOSE k \in 1 .. 26 : UpperCase[k] = s[i]]
        ELSE s[i]]

\* selectedIndices[i] read from the map[int]bool: a missing key reads false
Selected(sel, i) == i \in DOMAIN sel /\ sel[i]

\* for i := range timeEntries { selectedIndices[i] = true }
SelectAll(sel, n) == [i \in (DOMAIN sel) \cup (0 .. (n - 1)) |-> TRUE]

Toggle_SelectOnly(sel, idx) == [i \in (DOMAIN sel) \cup {idx} |-> IF i = idx THEN TRUE ELSE sel[i]]

\* selectedIndices[idx] = !selectedIndices[idx]
Toggle(sel, idx) ==
    [i \in (DOMAIN sel) \cup {idx} |-> IF i = idx THEN ~Selected(sel, idx) ELSE sel[i]]

\* processSelection: the indices of the selected entries, in the order of
\* the list
SelectedEntries(entries, sel) ==
    SelectSeq([i \in 1 .. Len(entries) |-> i - 1], LAMBDA i : Selected(sel, i))

\* the lines typed at the prompt of the selection loop, as ReadString('\n')
\* returns them, each with what the user of the interface entered by it:
\* key is the letter entered (in either case, blanks around it not
\* counting), "number" for a decimal number of value num, "other" for
\* anything else
Typed(line, key, num) == [line |-> line, key |-> key, num |-> num]

SelectionInputs ==
    {Typed(<<"a", "\n">>, "a", 0), Typed(<<"A", "\n">>, "a", 0),
     Typed(<<" ", "a", " ", "\n">>, "a", 0),
     Typed(<<"n", "\n">>, "n", 0), Typed(<<"N", "\r", "\n">>, "n", 0),
     Typed(<<"d", "\n">>, "d", 0), Typed(<<"D", "\n">>, "d", 0),
     Typed(<<"q", "\n">>, "q", 0), Typed(<<"\t", "Q", "\n">>, "q", 0),
     Typed(<<"1", "\n">>, "number", 1), Typed(<<"2", "\n">>, "number", 2),
     Typed(<<"3", "\n">>, "number", 3), Typed(<<" ", "2", "\n">>, "number", 2),
     Typed(<<"+", "2", "\n">>, "number", 2), Typed(<<"0", "2", "\n">>, "number", 2),
     Typed(<<"0", "\n">>, "number", 0), Typed(<<"4", "\n">>, "number", 4),
     Typed(<<"1", "0", "\n">>, "number", 10), Typed(<<"-", "1", "\n">>, "number", -1),
     Typed(<<"x", "\n">>, "other", 0), Typed(<<"\n">>, "other", 0),
     Typed(<<>>, "other", 0), Typed(<<"1", "a", "\n">>, "other", 0),
     Typed(<<"a", "a", "\n">>, "other", 0), Typed(<<"1", " ", "2", "\n">>, "other", 0),
     Typed(<<"a", "l", "l", "\n">>, "other", 0), Typed(<<"1", ".", "0", "\n">>, "other", 0)}

SelectionLines == {t.line : t \in SelectionInputs}

\* the lines typed at the confirmation
ConfirmLines ==
    {<<"y", "\n">>, <<"y", "e", "s", "\n">>, <<"Y", "\n">>, <<" ", "Y", "E", "S", " ", "\n">>,
     <<"n", "\n">>, <<"\n">>, <<>>, <<"y", "e", "a", "h", "\n">>}

\* the lists of entries of the day
DeleteFetches ==
    {<<>>, <<Entry("alpha", 1, "dev", 2)>>,
     <<Entry("beta", 2, "ops", 1), Entry("alpha", 1, "dev", 2)>>,
     <<Entry("beta", 2, "ops", 1), Entry("alpha", 1, "dev", 2), Entry("alpha", 2, "ops", 4)>>}

\* what the loop prints before it reads: "%d of %d entries selected"
Selecting(sel, entries) ==
    [kind |-> "selecting", count |-> Cardinality(DOMAIN sel), of |-> Len(entries)]

\* delete [-d date]: the date is today's, or the one of -d, or the one
\* entered at the prompt; then handleInteractiveDelete(client, targetDate)
\* up to the first prompt of the selection loop
DeleteInteractive(dates, fetches) ==
    /\ pc = "start"
    /\ \E target \in Targets(dates), fetched \in Fetched(fetches) :
          LET date == Date(Year(target), Month(target), Day(target))
          IN  /\ targetDate' = date
              /\ Shown("delete", date, date, <<>>, fetched,
                       IF Len(fetched.entries) = 0 THEN NoEntries
                       ELSE Selecting(EmptyMap, fetched.entries),
                       IF Len(fetched.entries) = 0 THEN "done" ELSE "select")
    /\ selectedIndices' = EmptyMap
    /\ input' = <<>>
    /\ UNCHANGED <<clock, appConfig, navCount, rerun, choice, locals>>

\* delete: the date prompt failed
DeletePromptFailed ==
    /\ pc = "start"
    /\ Fatal("delete", 0)
    /\ UNCHANGED <<clock, appConfig, rerun, deleteVars>>

\* one round of the selection loop: the line read, the switch, and either
\* the list printed again or, leaving the loop, processSelection up to the
\* confirmation
SelectionRound(lines) ==
    /\ pc = "select"
    /\ \E line \in lines :
          LET text == TrimSpace(line)
              n == Len(timeEntries)
              num == Atoi(text)
              sel == CASE ToLower(text) = <<"a">> -> SelectAll(selectedIndices, n)
                       [] ToLower(text) = <<"n">> -> EmptyMap
                       [] ToLower(text) \in {<<"d">>, <<"q">>} -> selectedIndices
                       [] OTHER -> IF num.ok /\ num.val > 0 /\ num.val <= n
                                   THEN Toggle(selectedIndices, num.val - 1)
                                   ELSE selectedIndices
              selectedEntries == SelectedEntries(timeEntries, sel)
          IN  /\ input' = line
              /\ selectedIndices' = sel
              /\ CASE ToLower(text) = <<"d">> ->
                        IF Len(selectedEntries) = 0
                        THEN pc' = "done" /\ out' = [kind |-> "cancelled", by |-> "no selection"]
                        ELSE /\ pc' = "confirm"
                             /\ out' = [kind |-> "selected", selectedEntries |-> selectedEntries]
                   [] ToLower(text) = <<"q">> ->
                        pc' = "done" /\ out' = [kind |-> "cancelled", by |-> "q"]
                   [] OTHER -> pc' = "select" /\ out' = Selecting(sel, timeEntries)
    /\ UNCHANGED <<clock, appConfig, view, targetDate, startDate, endDate, params, yearLabel,
                   timeEntries, navCount, rerun, choice, calls, locals>>

DeleteLoop_StopAtFailure(selectedEntries, failed) ==
    LET all == [k \in 1 .. Len(selectedEntries) |->
                   Call("DeleteTimeEntry", selectedEntries[k], selectedEntries[k] \notin failed)]
        bad == {k \in 1 .. Len(all) : ~all[k].ok}
    IN  IF bad = {} THEN all ELSE SubSeq(all, 1, CHOOSE k \in bad : \A j \in bad : k <= j)

\* "for _, entry := range selectedEntries": the calls of the loop, those of
\* failed returning an error
DeleteLoop(selectedEntries, failed) ==
    [k \in 1 .. Len(selectedEntries) |->
        Call("DeleteTimeEntry", selectedEntries[k], selectedEntries[k] \notin failed)]

\* successCount / failCount: the calls counted in the loop
CountCalls(made, ok) == Cardinality({k \in 1 .. Len(made) : made[k].ok = ok})

Confirmed_UnlessNo(line) == TrimSpace(ToLower(line)) # <<"n">>

\* confirm = strings.TrimSpace(strings.ToLower(confirm)); the deletion goes
\* on when confirm is "y" or "yes"
Confirmed(line) ==
    LET answered(confirm) == confirm = <<"y">> \/ confirm = <<"y", "e", "s">>
    IN  answered(TrimSpace(ToLower(line)))

\* the confirmation and, after "y" or "yes", one DeleteTimeEntry per
\* selected entry, any of which may fail, then the summary
ConfirmDeletion(lines) ==
    /\ pc = "confirm"
    /\ \E line \in lines :
          LET selectedEntries == out.selectedEntries
              indices == {selectedEntries[i] : i \in 1 .. Len(selectedEntries)}
          IN  /\ input' = line
              /\ IF ~Confirmed(line)
                 THEN /\ out' = [kind |-> "cancelled", by |-> "confirmation"]
                      /\ calls' = calls
                 ELSE \E failed \in SUBSET indices :
                         /\ calls' = calls \o DeleteLoop(selectedEntries, failed)
                         /\ out' = [kind |-> "deleted", selectedEntries |-> selectedEntries,
                                    failed |-> failed,
                                    total |-> Len(selectedEntries),
                                    successCount |->
                                        CountCalls(DeleteLoop(selectedEntries, failed), TRUE),
                                    failCount |->
                                        CountCalls(DeleteLoop(selectedEntries, failed), FALSE)]
    /\ pc' = "done"
    /\ UNCHANGED <<clock, appConfig, view, targetDate, startDate, endDate, params, yearLabel,
                   timeEntries, navCount, rerun, selectedIndices, choice, locals>>

\* the arguments of delete -n <timeEntryID>
DirectArgs == {<<"7">>, <<"4", "2">>, <<"x">>, <<"7", "a">>, <<>>}

DeleteChoices == {"Delete this time entry", "Cancel deletion"}

\* delete -n <timeEntryID>: the ID parsed, then handleDirectDelete up to
\* the prompt; client.GetTimeEntry finds the entry or returns an error
DeleteDirect(args) ==
    /\ pc = "start"
    /\ \E arg \in args, found \in BOOLEAN :
          LET id == Atoi(arg)
          IN  /\ view' = "delete"
              /\ pc' = IF id.ok /\ found THEN "choose" ELSE "fatal"
              /\ out' = IF id.ok /\ found THEN [kind |-> "details", id |-> id.val]
                        ELSE NoOutput
              /\ calls' = IF id.ok THEN Append(calls, Call("GetTimeEntry", id.val, found))
                          ELSE calls
    /\ UNCHANGED <<clock, appConfig, targetDate, startDate, endDate, params, yearLabel,
                   timeEntries, navCount, rerun, deleteVars>>

\* handleDirectDelete from the prompt on: the prompt fails, or "Cancel
\* deletion", or "Delete this time entry" and the one DeleteTimeEntry,
\* which may fail
DirectChoice ==
    /\ pc = "choose"
    /\ view = "delete"
    /\ \E c \in DeleteChoices \cup {PromptFailed} :
          /\ choice' = c
          /\ CASE c = PromptFailed -> pc' = "fatal" /\ out' = out /\ calls' = calls
               [] c = "Cancel deletion" ->
                    /\ pc' = "done"
                    /\ out' = [kind |-> "cancelled", by |-> "choice"]
                    /\ calls' = calls
               [] c = "Delete this time entry" ->
                    \E ok \in BOOLEAN :
                       /\ calls' = Append(calls, Call("DeleteTimeEntry", out.id, ok))
                       /\ pc' = IF ok THEN "done" ELSE "fatal"
                       /\ out' = [kind |-> "deleted one", id |-> out.id, ok |-> ok]
    /\ UNCHANGED <<clock, appConfig, view, targetDate, startDate, endDate, params, yearLabel,
                   timeEntries, navCount, rerun, selectedIndices, input, locals>>

(***************************************************************************)
(* Specifications.  Spec is a run of the list command over a sample of     *)
(* reference dates; SpecPeriod and SpecYear resolve the period of every    *)
(* day of the modelled years; SpecAgg aggregates every list of entries up  *)
(* to MaxEntries; SpecMonths applies calculateMonthsBetween to pairs of    *)
(* times; SpecReport computes the capacity report under several monthly    *)
(* capacities; SpecConfig reads every year start setting; SpecAgain runs   *)
(* a view a second time, on the same entries or on a reordering of them;   *)
(* SpecDelete is a run of the delete command.  SpecDuration, SpecCreate,   *)
(* SpecShow and SpecUpdate, defined with their commands further down, are  *)
(* parseDuration on every short string and runs of the create, config and  *)
(* update commands.                                                        *)
(***************************************************************************)
DefaultConfigs == {ConfigOf(<<>>, 0, <<>>)}

\* the reference dates of Spec: around the ends of February, June and the year
SampleDates ==
    {Date(FirstYear, 12, 31), Date(FirstYear + 1, 1, 1), Date(FirstYear + 1, 2, 15),
     Date(FirstYear + 1, 3, 0), Date(FirstYear + 1, 3, 3), Date(FirstYear + 1, 6, 30),
     Date(FirstYear + 1, 11, 10)}

Init == InitWith({Date(FirstYear + 1, 6, 30) + 1},
                 {ConfigOf(ys, 0, ids) : ys \in {<<>>, MMDD(4, 6), MMDD(13, 1)},
                                         ids \in {<<>>, <<1>>}})

Next ==
    \/ ListBadDate
    \/ ListDaily(SampleDates, FewFetches)
    \/ ListWeekly(SampleDates, FewFetches)
    \/ ListMonthly(SampleDates, FewFetches)
    \/ ListYearly(SampleDates, FewFetches)
    \/ NavPrevious(OneFetch)
    \/ NavNext(OneFetch)
    \/ NavExit

Spec == Init /\ [][Next]_vars

\* day, week and month of every day
InitPeriod == InitWith(Clocks, DefaultConfigs)

NextPeriod ==
    \/ ListBadDate
    \/ ListDaily(AllDates, OneFetch)
    \/ ListWeekly(AllDates, OneFetch)
    \/ ListMonthly(AllDates, OneFetch)
    \/ NavExit

SpecPeriod == InitPeriod /\ [][NextPeriod]_vars

\* the fiscal year of every day, for every year start
InitYear == InitWith(Clocks, {ConfigOf(ys, 0, <<>>) : ys \in ValidYearStarts})

NextYear == ListYearly(AllDates, OneFetch)

SpecYear == InitYear /\ [][NextYear]_vars

\* the aggregation of every list of entries, in a run without -d
AllFetches == SeqsUpTo(EntryValues, MaxEntries)

InitAgg == InitWith({Date(FirstYear + 1, 6, 30) + 1},
                    {ConfigOf(<<>>, 0, ids) : ids \in BillableLists})

NextAgg ==
    \/ ListDaily({}, AllFetches)
    \/ ListWeekly({}, AllFetches)
    \/ ListMonthly({}, AllFetches)
    \/ ListYearly({}, AllFetches)
    \/ NavExit

SpecAgg == InitAgg /\ [][NextAgg]_vars

\* every view run twice on every list of entries
InitAgain == InitWith({Date(FirstYear + 1, 6, 30) + 1}, {ConfigOf(<<>>, 0, <<1>>)})

NextAgain ==
    \/ ListDaily({}, AllFetches)
    \/ ListWeekly({}, AllFetches)
    \/ ListMonthly({}, AllFetches)
    \/ ListYearly({}, AllFetches)
    \/ ListAgain
    \/ ListReordered
    \/ NavExit

SpecAgain == InitAgain /\ [][NextAgain]_vars

\* a run of the delete command in interactive mode
InitDelete == InitWith({Date(FirstYear + 1, 6, 30) + 1}, DefaultConfigs)

NextDelete ==
    \/ DeleteInteractive({Date(FirstYear, 12, 31)}, DeleteFetches)
    \/ DeletePromptFailed
    \/ SelectionRound(SelectionLines)
    \/ ConfirmDeletion(ConfirmLines)
    \/ DeleteDirect(DirectArgs)
    \/ DirectChoice

SpecDelete == InitDelete /\ [][NextDelete]_vars

\* the yearly summary under every year_start_date of the model: unset,
\* MM-DD, other spellings strconv.Atoi reads, and values it rejects
OtherYearStarts ==
    {<<"4", "-", "1">>, <<"+", "4", "-", "0", "6">>, <<"0", "4", "-">>, <<"-">>,
     <<"4", "-", "1", "-", "2">>, <<"a", "b", "-", "0", "1">>, <<"0", "0", "-", "0", "1">>,
     <<"1", "2", "-", "0", "0">>}

InitConfig ==
    InitWith({Date(FirstYear + 1, 6, 30) + 1},
             {ConfigOf(ys, 0, <<>>) : ys \in ValidYearStarts \cup InvalidYearStarts \cup OtherYearStarts})

NextConfig == ListYearly(SampleDates, OneFetch)

SpecConfig == InitConfig /\ [][NextConfig]_vars

\* the capacity report of the monthly and yearly views: configured and
\* default capacities, whole and partial periods, lists with billable and
\* other entries and lists whose hours are all 0
ReportCapacities == {0, -1, 100 * UnitsPerHour}

ReportFetches ==
    {<<>>,
     <<Entry("alpha", 1, "dev", 180 * UnitsPerHour)>>,
     <<Entry("beta", 2, "ops", 60 * UnitsPerHour), Entry("alpha", 1, "dev", 180 * UnitsPerHour)>>,
     <<Entry("alpha", 2, "ops", 8 * UnitsPerHour)>>,
     <<Entry("alpha", 1, "dev", 0)>>,
     <<Entry("alpha", 1, "dev", 0), Entry("beta", 2, "ops", 0)>>}

InitReport ==
    InitWith(Clocks, {ConfigOf(ys, cap, ids) : ys \in {<<>>, MMDD(4, 6)}, cap \in ReportCapacities,
                                                ids \in {<<>>, <<1>>}})

NextReport ==
    \/ ListMonthly(SampleDates, ReportFetches)
    \/ ListYearly(SampleDates, ReportFetches)
    \/ NavExit

SpecReport == InitReport /\ [][NextReport]_vars

\* calculateMonthsBetween on pairs of times: the starts are midnights (a
\* month start or a year start), the ends midnights or later moments
MonthsStarts ==
    {Date(FirstYear + 1, m, d) : m \in {1, 2, 4}, d \in {1, 15, 29, 31}}

MonthsEnds == AllDates \cup {t + 1 : t \in AllDates}

InitMonths ==
    /\ clock = Date(FirstYear + 1, 6, 30) + 1
    /\ appConfig \in DefaultConfigs
    /\ pc = "start"
    /\ view = "none"
    /\ targetDate = 0
    /\ startDate \in MonthsStarts
    /\ endDate \in MonthsEnds
    /\ params = <<>>
    /\ yearLabel = <<>>
    /\ timeEntries = <<>>
    /\ out = NoOutput
    /\ navCount = 0
    /\ rerun = "none"
    /\ selectedIndices = EmptyMap
    /\ input = <<>>
    /\ choice = "none"
    /\ calls = <<>>
    /\ locals = NoLocals

ApplyMonthsBetween ==
    /\ pc = "start"
    /\ out' = [kind |-> "months", periodLength |-> calculateMonthsBetween(startDate, endDate)]
    /\ pc' = "done"
    /\ UNCHANGED <<clock, appConfig, view, targetDate, startDate, endDate, params, yearLabel,
                   timeEntries, navCount, rerun, deleteVars, calls>>

SpecMonths == InitMonths /\ [][ApplyMonthsBetween]_vars

(***************************************************************************)
(* The create command: parseDuration.  The float64 returned,               *)
(* float64(hours) + float64(minutes)/60, is kept as its three integers:    *)
(* whole + num / den; it is negative exactly when whole * den + num is.    *)
(***************************************************************************)
DurationError == [err |-> TRUE, whole |-> 0, num |-> 0, den |-> 1]

\* parseDuration accepting any minutes
parseDuration_AnyMinutes(duration) ==
    LET checked(hours, minutes) ==
            IF ~hours.ok THEN DurationError
            ELSE IF ~minutes.ok THEN DurationError
            ELSE [err |-> FALSE, whole |-> hours.val, num |-> minutes.val, den |-> 60]
        of(parts) ==
            IF Len(parts) # 2 THEN DurationError
            ELSE checked(Atoi(parts[1]), Atoi(parts[2]))
    IN  of(Split(duration, ":"))

\* parseDuration
parseDuration(duration) ==
    LET checked(hours, minutes) ==
            IF ~hours.ok THEN DurationError
            ELSE IF ~minutes.ok THEN DurationError
            ELSE IF minutes.val < 0 \/ minutes.val >= 60 THEN DurationError
            ELSE [err |-> FALSE, whole |-> hours.val, num |-> minutes.val, den |-> 60]
        of(parts) ==
            IF Len(parts) # 2 THEN DurationError
            ELSE checked(Atoi(parts[1]), Atoi(parts[2]))
    IN  of(Split(duration, ":"))

\* the durations given to parseDuration: every string of up to
\* MaxDurationLen of these characters
DurationChars == {"0", "3", "6", ":", "-", "+", "a"}
DurationInputs == SeqsUpTo(DurationChars, MaxDurationLen)

InitDuration ==
    /\ clock = Date(FirstYear + 1, 6, 30) + 1
    /\ appConfig \in DefaultConfigs
    /\ pc = "start"
    /\ view = "none"
    /\ targetDate = 0
    /\ startDate = 0
    /\ endDate = 0
    /\ params = <<>>
    /\ yearLabel = <<>>
    /\ timeEntries = <<>>
    /\ out = NoOutput
    /\ navCount = 0
    /\ rerun = "none"
    /\ selectedIndices = EmptyMap
    /\ input \in DurationInputs
    /\ choice = "none"
    /\ calls = <<>>
    /\ locals = NoLocals

ApplyParseDuration ==
    /\ pc = "start"
    /\ out' = [kind |-> "duration", result |-> parseDuration(input)]
    /\ pc' = "done"
    /\ UNCHANGED <<clock, appConfig, view, targetDate, startDate, endDate, params, yearLabel,
                   timeEntries, navCount, rerun, deleteVars, calls>>

SpecDuration == InitDuration /\ [][ApplyParseDuration]_vars

(***************************************************************************)
(* The create command: one run of "harvest create".  The run stops at its  *)
(* prompts: pc is "date", "project", "task" or "time" while the prompt of   *)
(* that name is open.  locals holds the flags and the entry being built;   *)
(* selectedProject is the place of the project in appConfig.Projects, 0    *)
(* while it is nil.  Names are strings, "" an absent one; the date and the *)
(* duration are sequences of characters.                                   *)
(***************************************************************************)
Project(id, name, tasks) == [ID |-> id, Name |-> name, Tasks |-> tasks]
Task(id, name) == [ID |-> id, Name |-> name]

\* the fields of Config the create command reads
WithProjects(c, projects, defaultProject, defaultTask) ==
    c @@ [Projects |-> projects, DefaultProject |-> defaultProject, DefaultTask |-> defaultTask]

\* Config.GetProjectByName: the place of the first project of that name, 0 for nil
GetProjectByName(c, name) ==
    IF \E i \in 1 .. Len(c.Projects) : c.Projects[i].Name = name
    THEN CHOOSE i \in 1 .. Len(c.Projects) :
            /\ c.Projects[i].Name = name
            /\ \A j \in 1 .. (i - 1) : c.Projects[j].Name # name
    ELSE 0

\* Project.GetTaskByName: the place of the first task of that name, 0 for nil
GetTaskByName(project, name) ==
    IF \E i \in 1 .. Len(project.Tasks) : project.Tasks[i].Name = name
    THEN CHOOSE i \in 1 .. Len(project.Tasks) :
            /\ project.Tasks[i].Name = name
            /\ \A j \in 1 .. (i - 1) : project.Tasks[j].Name # name
    ELSE 0

\* Config.GetDefaultProject
GetDefaultProject(c) ==
    IF c.DefaultProject = "" THEN 0 ELSE GetProjectByName(c, c.DefaultProject)

\* Config.GetDefaultTask
GetDefaultTask(c, project) ==
    IF c.DefaultTask = "" THEN 0 ELSE GetTaskByName(project, c.DefaultTask)

\* Time.Format("2006-01-02")
FormatString(t) == Itoa(Year(t)) \o <<"-">> \o Fmt2(Month(t)) \o <<"-">> \o Fmt2(Day(t))

\* entry := TimeEntry{}
ZeroEntry == [Date |-> <<>>, ProjectID |-> 0, TaskID |-> 0, Time |-> [whole |-> 0, num |-> 0, den |-> 1]]

\* the variables of CreateCmd.Run for the flags f
CreateLocals(f) ==
    [cmd |-> "create", useDefaultMode |-> f.useDefaultMode, date |-> f.date,
     projectName |-> f.projectName, taskName |-> f.taskName, timeValue |-> f.timeValue,
     entry |-> ZeroEntry, selectedProject |-> 0]

\* the variables a create step leaves alone
createFrame == <<clock, appConfig, targetDate, startDate, endDate, params, yearLabel, timeEntries,
                 navCount, rerun, selectedIndices, input, choice>>

\* a prompt of the create command opens
CreateWait(l, prompt) ==
    /\ pc' = prompt
    /\ locals' = l
    /\ out' = out
    /\ calls' = calls

\* log.Fatalf in handleDefaultMode
CreateFatal(l) ==
    /\ pc' = "fatal"
    /\ locals' = l
    /\ out' = out
    /\ calls' = calls

\* CreateCmd.Run after its handler returned, having printed message:
\* createHarvestTimeEntry(&entry), the request succeeding or failing
createHarvestTimeEntry(l, message) ==
    /\ locals' = l
    /\ \E ok \in BOOLEAN :
          /\ calls' = Append(calls, Call("CreateTimeEntry", l.entry, ok))
          /\ out' = [kind |-> IF ok THEN "created" ELSE "create failed", message |-> message,
                     entry |-> l.entry]
          /\ pc' = IF ok THEN "done" ELSE "fatal"

\* handleRegularMode: "Handle time", -t given
HandleTimeValue(l) ==
    LET parsed(r) ==
            IF r.err THEN createHarvestTimeEntry(l, "invalid duration")
            ELSE createHarvestTimeEntry([l EXCEPT !.entry.Time = [whole |-> r.whole, num |-> r.num,
                                                                  den |-> r.den]], "details")
    IN  parsed(parseDuration(l.timeValue))

\* handleRegularMode: "Handle time"
HandleTime(l) ==
    IF l.timeValue # <<>> THEN HandleTimeValue(l) ELSE CreateWait(l, "time")

\* handleRegularMode: "Handle task selection"
HandleTask(l) ==
    LET found(project, task) ==
            IF task = 0 THEN createHarvestTimeEntry(l, "task not found")
            ELSE HandleTime([l EXCEPT !.entry.TaskID = project.Tasks[task].ID])
        in(project) == found(project, GetTaskByName(project, l.taskName))
    IN  IF l.taskName # "" THEN in(appConfig.Projects[l.selectedProject])
        ELSE CreateWait(l, "task")

\* handleRegularMode: "Handle project selection"
HandleProject(l) ==
    LET found(project) ==
            IF project = 0 THEN createHarvestTimeEntry(l, "project not found")
            ELSE HandleTask([l EXCEPT !.selectedProject = project,
                                      !.entry.ProjectID = appConfig.Projects[project].ID])
    IN  IF l.projectName # "" THEN found(GetProjectByName(appConfig, l.projectName))
        ELSE CreateWait(l, "project")

\* handleRegularMode: "Handle date" (useDefault is never set)
HandleDate(l) ==
    IF l.date # <<>> THEN HandleProject([l EXCEPT !.entry.Date = l.date])
    ELSE CreateWait(l, "date")

\* handleDefaultMode up to its prompt
handleDefaultMode(l) ==
    LET withTask(project, task, dated) ==
            IF task = 0 THEN CreateFatal(dated)
            ELSE CreateWait([dated EXCEPT !.entry.TaskID = appConfig.Projects[project].Tasks[task].ID],
                            "time")
        withProject(project, dated) ==
            IF project = 0 THEN CreateFatal(dated)
            ELSE withTask(project, GetDefaultTask(appConfig, appConfig.Projects[project]),
                          [dated EXCEPT !.selectedProject = project,
                                        !.entry.ProjectID = appConfig.Projects[project].ID])
    IN  withProject(GetDefaultProject(appConfig), [l EXCEPT !.entry.Date = FormatString(clock)])

\* harvest create [-D] [-d date] [-p project] [-a task] [-t duration]
CreateRun(flags) ==
    /\ pc = "start"
    /\ view' = "create"
    /\ \E f \in flags :
          IF f.useDefaultMode THEN handleDefaultMode(CreateLocals(f))
          ELSE HandleDate(CreateLocals(f))
    /\ UNCHANGED createFrame

\* the prompt "Date (YYYY-MM-DD)": an error, or a text that time.Parse accepts
PromptDate(dates) ==
    /\ pc = "date"
    /\ locals.cmd = "create"
    /\ \/ createHarvestTimeEntry(locals, "prompt failed")
       \/ \E result \in dates : HandleProject([locals EXCEPT !.entry.Date = result])
    /\ UNCHANGED <<view, createFrame>>

\* the prompt "Select Project": an error, or one of the projects
PromptProject ==
    /\ pc = "project"
    /\ \/ createHarvestTimeEntry(locals, "prompt failed")
       \/ \E index \in 1 .. Len(appConfig.Projects) :
             HandleTask([locals EXCEPT !.selectedProject = index,
                                       !.entry.ProjectID = appConfig.Projects[index].ID,
                                       !.projectName = appConfig.Projects[index].Name])
    /\ UNCHANGED <<view, createFrame>>

\* the prompt "Select Task": an error, or one of the tasks of the project
PromptTask ==
    /\ pc = "task"
    /\ \/ createHarvestTimeEntry(locals, "prompt failed")
       \/ \E index \in 1 .. Len(appConfig.Projects[locals.selectedProject].Tasks) :
             HandleTime([locals EXCEPT
                            !.entry.TaskID = appConfig.Projects[locals.selectedProject].Tasks[index].ID,
                            !.taskName = appConfig.Projects[locals.selectedProject].Tasks[index].Name])
    /\ UNCHANGED <<view, createFrame>>

\* the prompt "Time (HH:MM)": an error (fatal in default mode), or a text
\* that Validate, which is parseDuration, accepts
PromptTime(durations) ==
    /\ pc = "time"
    /\ locals.cmd = "create"
    /\ \/ IF locals.useDefaultMode THEN CreateFatal(locals)
          ELSE createHarvestTimeEntry(locals, "prompt failed")
       \/ \E result \in {d \in durations : ~parseDuration(d).err} :
             LET typed(r) ==
                     createHarvestTimeEntry([locals EXCEPT !.entry.Time = [whole |-> r.whole,
                                                                          num |-> r.num,
                                                                          den |-> r.den]], "details")
             IN  typed(parseDuration(result))
    /\ UNCHANGED <<view, createFrame>>

\* the inputs of a run of create
SomeDate == <<"2", "0", "2", "4", "-", "0", "1", "-", "0", "2">>
CreateDates == {SomeDate, <<"2", "0", "2", "4", "-", "0", "2", "-", "3", "0">>}
CreateDurations ==
    {<<"1", ":", "3", "0">>, <<"0", ":", "0", "5">>, <<"1", ":", "6", "0">>, <<"1", "3", "0">>,
     <<"7", ".", "5">>, <<"-", "1", ":", "3", "0">>}
CreateProjects ==
    <<Project(1, "alpha", <<Task(11, "dev"), Task(12, "meet")>>),
      Project(2, "beta", <<Task(21, "dev")>>)>>
CreateFlags ==
    {[useDefaultMode |-> D, date |-> d, projectName |-> p, taskName |-> a, timeValue |-> t] :
        D \in BOOLEAN, d \in {<<>>, SomeDate}, p \in {"", "alpha", "beta", "gamma"},
        a \in {"", "dev", "meet", "test"}, t \in {<<>>} \cup CreateDurations}

InitCreate ==
    InitWith({Date(FirstYear + 1, 6, 30) + 1},
             {WithProjects(ConfigOf(<<>>, 0, <<>>), CreateProjects, dp, dt) :
                 dp \in {"", "alpha", "gamma"}, dt \in {"", "meet", "test"}})

NextCreate ==
    \/ CreateRun(CreateFlags)
    \/ PromptDate(CreateDates)
    \/ PromptProject
    \/ PromptTask
    \/ PromptTime(CreateDurations)

SpecCreate == InitCreate /\ [][NextCreate]_vars

(***************************************************************************)
(* The config command: displayConfig on the "harvest_api" object of the    *)
(* configuration file, the other members of the file being printed as they *)
(* are.  The object is the sequence of its members [key, value] in file    *)
(* order, the values being strings (sequences of characters).  What is     *)
(* printed is kept as the map from each key to the text printed for its    *)
(* value; json.MarshalIndent prints the keys in sorted order.              *)
(***************************************************************************)
Member(key, value) == [key |-> key, value |-> value]

\* the keys of the members
KeysOf(members) == {members[i].key : i \in 1 .. Len(members)}

\* the place of the last member with one of the keys
LastWith(members, keys) ==
    CHOOSE i \in 1 .. Len(members) :
        /\ members[i].key \in keys
        /\ \A j \in (i + 1) .. Len(members) : members[j].key \notin keys

\* json.Unmarshal into map[string]interface{}: the keys as written, the
\* last member of a key giving its value
UnmarshalMap(members) ==
    [k \in KeysOf(members) |-> members[LastWith(members, {k})].value]

\* the keys that json matches to the field tagged "token": the tag itself,
\* or a key equal to it when case is ignored
TokenKeys == {"token", "Token", "TOKEN"}

\* json.Decoder.Decode into Config, the field HarvestAPI.Token: the value of
\* the last member matched to the field, "" when there is none
DecodedToken(members) ==
    IF KeysOf(members) \cap TokenKeys = {} THEN <<>>
    ELSE members[LastWith(members, TokenKeys)].value

\* the mask of displayConfig
Mask == <<"*", "*", "*", "*", "*", "*", "*", "*">>

\* the text json.Marshal prints for a character of a string: it escapes the
\* quote, the backslash and, for HTML, the characters < > &
EscapeChar(c) ==
    CASE c = "\"" -> <<"\\", "\"">>
      [] c = "\\" -> <<"\\", "\\">>
      [] c = "<" -> <<"\\", "u", "0", "0", "3", "c">>
      [] c = ">" -> <<"\\", "u", "0", "0", "3", "e">>
      [] c = "&" -> <<"\\", "u", "0", "0", "2", "6">>
      [] OTHER -> <<c>>

RECURSIVE EscapeString(_)
EscapeString(str) ==
    IF str = <<>> THEN <<>> ELSE EscapeChar(Head(str)) \o EscapeString(Tail(str))

\* the text json.Marshal prints for a string
MarshalString(str) == <<"\"">> \o EscapeString(str) \o <<"\"">>

\* displayConfig
displayConfig(members, showSensitive) ==
    LET printed(harvestAPI) == [k \in DOMAIN harvestAPI |-> MarshalString(harvestAPI[k])]
        masked(harvestAPI) ==
            IF ~showSensitive /\ "token" \in DOMAIN harvestAPI
            THEN [harvestAPI EXCEPT !["token"] = Mask]
            ELSE harvestAPI
    IN  printed(masked(UnmarshalMap(members)))

\* the configuration files of the model
ConfigKeys == {"token", "Token", "account_id"}
ConfigValues == {<<"a">>, <<"b", "c">>, <<"a", "&", "b">>}
ConfigMembers == {Member(k, v) : k \in ConfigKeys, v \in ConfigValues}
HarvestAPIs == SeqsUpTo(ConfigMembers, MaxMembers)

\* harvest config [--show-sensitive]
DisplayConfig(files) ==
    /\ pc = "start"
    /\ \E members \in files, showSensitive \in BOOLEAN :
          /\ locals' = [cmd |-> "config", showSensitive |-> showSensitive, harvestAPI |-> members]
          /\ out' = [kind |-> "config", contents |-> displayConfig(members, showSensitive)]
    /\ view' = "config"
    /\ pc' = "done"
    /\ UNCHANGED <<clock, appConfig, targetDate, startDate, endDate, params, yearLabel,
                   timeEntries, navCount, rerun, selectedIndices, input, choice, calls>>

InitShow == InitWith({Date(FirstYear + 1, 6, 30) + 1}, DefaultConfigs)

SpecShow == InitShow /\ [][DisplayConfig(HarvestAPIs)]_vars

(***************************************************************************)
(* cmd/update.go: one run of "harvest update".  The run stops at its       *)
(* prompts: pc is "option" at "Select an option", "custom" at "Enter date", *)
(* "entry" at "Select a time entry to update", "choose" at the first "What *)
(* would you like to do?", "edit" at the five prompts of updateTimeEntry,  *)
(* which are answered in one step, and "save" at the second "What would    *)
(* you like to do?".  An entry has the ID of its place in the fetched      *)
(* list, 0 the first.                                                      *)
(***************************************************************************)
dateOptions == <<"Use this date", "Enter a different date">>
updateOptions == <<"Update this time entry", "Cancel update">>
confirmOptions == <<"Save changes", "Cancel update">>

\* what a promptui.Select returns: an error, or the index of an item
SelectResults(items) == {[err |-> TRUE, index |-> 0]} \cup
                        {[err |-> FALSE, index |-> i] : i \in 0 .. (Len(items) - 1)}

\* the item chosen, for the record
Chosen(items, r) == IF r.err THEN PromptFailed ELSE items[r.index + 1]

\* a cancellation that is never taken
UpdateCancelled_Never(index) == FALSE

\* "if updateIndex == 1" / "if confirmIndex == 1": Cancel update
UpdateCancelled(index) == index = 1

\* the variables an update step leaves alone
updateFrame == <<clock, appConfig, targetDate, startDate, endDate, yearLabel, navCount, rerun,
                 selectedIndices, input>>

\* log.Fatalf in the update command
UpdateFatal(c) ==
    /\ pc' = "fatal"
    /\ choice' = c
    /\ UNCHANGED <<params, timeEntries, out, calls, locals>>

\* handleTimeEntrySelection up to its first prompt
handleTimeEntrySelection(date, fetched, c) ==
    /\ params' = [from |-> date, to |-> date]
    /\ calls' = Append(calls, Call("GetTimeEntries", [from |-> date, to |-> date], ~fetched.err))
    /\ choice' = c
    /\ locals' = [cmd |-> "update", targetDate |-> date, selectedEntry |-> 0,
                  updateRequest |-> ZeroEntry]
    /\ IF fetched.err
       THEN pc' = "fatal" /\ UNCHANGED <<timeEntries, out>>
       ELSE /\ timeEntries' = fetched.entries
            /\ IF Len(fetched.entries) = 0
               THEN pc' = "done" /\ out' = [kind |-> "empty"]
               ELSE pc' = "entry" /\ out' = [kind |-> "entries", of |-> Len(fetched.entries)]

\* time.Parse("2006-01-02", date) succeeds: the dates of the model that do
\* are those of CreateDates
ParsesAsDate(date) == date \in CreateDates

\* harvest update [-d date]
UpdateRun(dates, fetches) ==
    /\ pc = "start"
    /\ view' = "update"
    /\ \E date \in dates \cup {<<>>}, fetched \in Fetched(fetches) :
          IF date # <<>>
          THEN IF ParsesAsDate(date) THEN handleTimeEntrySelection(date, fetched, choice)
               ELSE UpdateFatal(choice)
          ELSE /\ pc' = "option"
               /\ locals' = [cmd |-> "update", targetDate |-> FormatString(clock),
                             selectedEntry |-> 0, updateRequest |-> ZeroEntry]
               /\ UNCHANGED <<params, timeEntries, out, calls, choice>>
    /\ UNCHANGED updateFrame

\* "Select an option": Use this date / Enter a different date
UpdateDateOption(fetches) ==
    /\ pc = "option"
    /\ \E r \in SelectResults(dateOptions), fetched \in Fetched(fetches) :
          IF r.err THEN UpdateFatal(PromptFailed)
          ELSE IF r.index = 1
          THEN /\ pc' = "custom"
               /\ choice' = Chosen(dateOptions, r)
               /\ UNCHANGED <<params, timeEntries, out, calls, locals>>
          ELSE handleTimeEntrySelection(locals.targetDate, fetched, Chosen(dateOptions, r))
    /\ UNCHANGED <<view, updateFrame>>

\* "Enter date (YYYY-MM-DD)": an error, or a text that time.Parse accepts
UpdateCustomDate(dates, fetches) ==
    /\ pc = "custom"
    /\ \/ UpdateFatal(PromptFailed)
       \/ \E date \in {d \in dates : ParsesAsDate(d)}, fetched \in Fetched(fetches) :
             handleTimeEntrySelection(date, fetched, choice)
    /\ UNCHANGED <<view, updateFrame>>

\* "Select a time entry to update", and the details of the entry selected
UpdateSelect ==
    /\ pc = "entry"
    /\ \/ UpdateFatal(PromptFailed)
       \/ \E index \in 0 .. (Len(timeEntries) - 1) :
             /\ locals' = [locals EXCEPT !.selectedEntry = index + 1]
             /\ out' = [kind |-> "details", id |-> index]
             /\ pc' = "choose"
             /\ UNCHANGED <<params, timeEntries, calls, choice>>
    /\ UNCHANGED <<view, updateFrame>>

\* the first "What would you like to do?"
UpdateChoice ==
    /\ pc = "choose"
    /\ view = "update"
    /\ \E r \in SelectResults(updateOptions) :
          IF r.err THEN UpdateFatal(PromptFailed)
          ELSE /\ choice' = Chosen(updateOptions, r)
               /\ IF UpdateCancelled(r.index)
                  THEN pc' = "done" /\ out' = [kind |-> "cancelled"]
                  ELSE pc' = "edit" /\ out' = out
               /\ UNCHANGED <<params, timeEntries, calls, locals>>
    /\ UNCHANGED <<view, updateFrame>>

\* updateTimeEntry: the prompts for date, project, task, time and notes,
\* one of them failing or all answered, and the summary of changes
UpdateEdits(dates, durations, notes) ==
    /\ pc = "edit"
    /\ \/ UpdateFatal(choice)
       \/ \E dateResult \in {d \in dates : ParsesAsDate(d)},
             project \in 1 .. Len(appConfig.Projects),
             timeResult \in {d \in durations : ~parseDuration(d).err},
             notesResult \in notes :
             \E task \in 1 .. Len(appConfig.Projects[project].Tasks) :
                LET asked(selectedProject, taskResult, timeValue) ==
                        LET selectedTask == GetTaskByName(selectedProject, taskResult)
                            updateRequest ==
                                [SpentDate |-> dateResult, ProjectID |-> selectedProject.ID,
                                 TaskID |-> selectedProject.Tasks[selectedTask].ID,
                                 Hours |-> [whole |-> timeValue.whole, num |-> timeValue.num,
                                            den |-> timeValue.den],
                                 Notes |-> notesResult]
                        IN  /\ locals' = [locals EXCEPT !.updateRequest = updateRequest]
                            /\ out' = [kind |-> "summary", id |-> locals.selectedEntry - 1,
                                       changes |-> updateRequest]
                IN  asked(appConfig.Projects[GetProjectByName(appConfig,
                                                              appConfig.Projects[project].Name)],
                          appConfig.Projects[project].Tasks[task].Name,
                          parseDuration(timeResult))
          /\ pc' = "save"
          /\ UNCHANGED <<params, timeEntries, calls, choice>>
    /\ UNCHANGED <<view, updateFrame>>

\* the second "What would you like to do?", and client.UpdateTimeEntry
UpdateConfirm ==
    /\ pc = "save"
    /\ \E r \in SelectResults(confirmOptions), ok \in BOOLEAN :
          IF r.err THEN UpdateFatal(PromptFailed)
          ELSE /\ choice' = Chosen(confirmOptions, r)
               /\ IF UpdateCancelled(r.index)
                  THEN pc' = "done" /\ out' = [kind |-> "cancelled"] /\ calls' = calls
                  ELSE /\ calls' = Append(calls, Call("UpdateTimeEntry", locals.selectedEntry - 1, ok))
                       /\ pc' = IF ok THEN "done" ELSE "fatal"
                       /\ out' = IF ok THEN [kind |-> "updated", id |-> locals.selectedEntry - 1]
                                 ELSE out
               /\ UNCHANGED <<params, timeEntries, locals>>
    /\ UNCHANGED <<view, updateFrame>>

UpdateDates == CreateDates \cup {<<"x">>}
UpdateNotes == {<<>>, <<"n">>}

InitUpdate ==
    InitWith({Date(FirstYear + 1, 6, 30) + 1},
             {WithProjects(ConfigOf(<<>>, 0, <<>>), CreateProjects, "", "")})

NextUpdate ==
    \/ UpdateRun(UpdateDates, DeleteFetches)
    \/ UpdateDateOption(DeleteFetches)
    \/ UpdateCustomDate(UpdateDates, DeleteFetches)
    \/ UpdateSelect
    \/ UpdateChoice
    \/ UpdateEdits(UpdateDates, CreateDurations, UpdateNotes)
    \/ UpdateConfirm

SpecUpdate == InitUpdate /\ [][NextUpdate]_vars

(***************************************************************************)
(* The properties.                                                         *)
(***************************************************************************)
\* a period was resolved and GetTimeEntries called for it
Resolved == params # <<>>

\* a monthly or yearly summary was computed from a non-empty list
Reported == out.kind = "report"

\* exact and float64 sums of a sequence of numbers, in order
RECURSIVE ExactSum(_)
ExactSum(q) == IF q = <<>> THEN 0 ELSE ExactSum(SubSeq(q, 1, Len(q) - 1)) + q[Len(q)]

RECURSIVE FSum(_)
FSum(q) == IF q = <<>> THEN 0 ELSE FAdd(FSum(SubSeq(q, 1, Len(q) - 1)), q[Len(q)])

HoursOf(entries) == [i \in 1 .. Len(entries) |-> entries[i].hours]

\* the names of a set in ascending order
RECURSIVE Ascending(_)
Ascending(names) ==
    IF names = {} THEN <<>>
    ELSE LET first == CHOOSE n \in names : \A o \in names : NameRank(n) <= NameRank(o)
         IN  <<first>> \o Ascending(names \ {first})

\* the values of a map in the order of its sorted keys
ValuesOf(m) == LET keys == Ascending(DOMAIN m) IN [i \in 1 .. Len(keys) |-> m[keys[i]]]

\* two float64 sums of the same n non-negative numbers, each by n - 1
\* additions, differ by at most 2 * gamma(n - 1) times the exact sum,
\* gamma(k) = k * u / (1 - k * u), u = 2 ^ -FloatPrecision
WithinRounding(a, b, n, exact) ==
    \/ n = 0 /\ a = b
    \/ n > 0 /\ Abs(a - b) * (Pow2(FloatPrecision) - (n - 1)) <= 2 * (n - 1) * exact

\* every partial sum of the entries is exactly a float64
NoRounding(entries) == ExactSum(HoursOf(entries)) <= Pow2(FloatPrecision)

\* the billable task IDs as a set
BillableTaskSet == {appConfig.BillableTaskIDs[i] : i \in 1 .. Len(appConfig.BillableTaskIDs)}

\* C2's reading of "billable"
ClaimedBillable(entry) == BillableTaskSet = {} \/ entry.taskID \in BillableTaskSet

BillableEntries == SelectSeq(timeEntries, ClaimedBillable)
NonBillableEntries == LET Other(e) == ~ClaimedBillable(e) IN SelectSeq(timeEntries, Other)

\* the non-billable hours: the sum of the non-billable task summaries
NonBillableHours == FSum(ValuesOf(out.totals.nonBillableTaskSummaries))

\* C1 as stated: in every monthly / yearly report billableHours +
\* nonBillableHours == totalHours exactly, and the per-task billable and
\* non-billable sums add up to totalHours.
C1_ExactPartition ==
    Reported =>
        /\ FAdd(out.totals.billableHours, NonBillableHours) = out.totals.totalHours
        /\ FAdd(FSum(ValuesOf(out.totals.billableTaskSummaries)), NonBillableHours)
             = out.totals.totalHours

\* C1 as amended: every entry is counted in exactly one of the two buckets
\* (the keys of the billable / non-billable task summaries are the task
\* names of the billable / non-billable entries, and the bucket sums add up
\* to the total with nothing counted twice or dropped); billableHours +
\* nonBillableHours equals totalHours exactly when no float64 addition
\* rounds, and within the rounding error of the additions otherwise.
C1_PartitionWithinRounding ==
    Reported =>
        LET t == out.totals
            n == Len(timeEntries)
            exact == ExactSum(HoursOf(timeEntries))
        IN  /\ DOMAIN t.billableTaskSummaries
                 = {BillableEntries[i].task : i \in 1 .. Len(BillableEntries)}
            /\ DOMAIN t.nonBillableTaskSummaries
                 = {NonBillableEntries[i].task : i \in 1 .. Len(NonBillableEntries)}
            /\ NoRounding(timeEntries) =>
                 /\ t.billableHours + NonBillableHours = t.totalHours
                 /\ ExactSum(ValuesOf(t.billableTaskSummaries))
                      + ExactSum(ValuesOf(t.nonBillableTaskSummaries)) = exact
                 /\ t.totalHours = exact
            /\ WithinRounding(FAdd(t.billableHours, NonBillableHours), t.totalHours, n, exact)
            /\ WithinRounding(FAdd(FSum(ValuesOf(t.billableTaskSummaries)), NonBillableHours),
                              t.totalHours, n, exact)

\* a report with billable and non-billable entries whose sums round
C1_Witness ==
    /\ Reported
    /\ out.totals.billableTaskSummaries # EmptyMap
    /\ out.totals.nonBillableTaskSummaries # EmptyMap
    /\ ~NoRounding(timeEntries)

\* C2: an entry is billable iff the billable task set is empty or holds
\* the entry's task ID: the billable hours of a report are the hours of
\* exactly those entries, every such entry is in the billable task summaries
\* and every other entry in the non-billable ones; with an empty set every
\* entry is billable.
C2_BillableIff ==
    Reported =>
        /\ out.totals.billableHours = FSum(HoursOf(BillableEntries))
        /\ \A i \in 1 .. Len(timeEntries) :
              LET e == timeEntries[i]
              IN  IF ClaimedBillable(e)
                  THEN e.task \in DOMAIN out.totals.billableTaskSummaries
                  ELSE e.task \in DOMAIN out.totals.nonBillableTaskSummaries
        /\ BillableTaskSet = {} =>
              /\ out.totals.billableHours = out.totals.totalHours
              /\ out.totals.nonBillableTaskSummaries = EmptyMap

\* a report under an empty billable set, over entries of different task IDs
C2_Witness ==
    /\ Reported
    /\ appConfig.BillableTaskIDs = <<>>
    /\ \E i, j \in 1 .. Len(timeEntries) : timeEntries[i].taskID # timeEntries[j].taskID
    /\ out.totals.billableHours = out.totals.totalHours

Weekly == out.kind = "weekly"

EntriesOf(project) == LET In(e) == e.project = project IN SelectSeq(timeEntries, In)

\* C3 as stated: each project's total equals the sum of its per-task
\* hours, and the sum of the project totals equals the sum of the hours of
\* all entries.
C3_ExactTotals ==
    Weekly =>
        /\ \A p \in DOMAIN out.projectSummaries :
              out.projectSummaries[p].TotalHours
                = FSum(ValuesOf(out.projectSummaries[p].TaskSummaries))
        /\ out.totalHours = FSum(HoursOf(timeEntries))

\* C3 as amended: the projects are those of the entries; each project's
\* total is the float64 sum of its entries' hours in input order; it equals
\* the sum of its per-task hours, and the sum of the project totals equals
\* the sum of the hours of all entries, exactly when no float64 addition
\* rounds and within the rounding error of the additions otherwise.
C3_TotalsWithinRounding ==
    Weekly =>
        LET n == Len(timeEntries)
            exact == ExactSum(HoursOf(timeEntries))
        IN  /\ DOMAIN out.projectSummaries = {timeEntries[i].project : i \in 1 .. n}
            /\ \A p \in DOMAIN out.projectSummaries :
                  LET s == out.projectSummaries[p]
                      mine == EntriesOf(p)
                      exactP == ExactSum(HoursOf(mine))
                  IN  /\ s.TotalHours = FSum(HoursOf(mine))
                      /\ WithinRounding(s.TotalHours, FSum(ValuesOf(s.TaskSummaries)),
                                        Len(mine), exactP)
                      /\ NoRounding(mine) =>
                            /\ s.TotalHours = exactP
                            /\ ExactSum(ValuesOf(s.TaskSummaries)) = exactP
            /\ WithinRounding(out.totalHours, FSum(HoursOf(timeEntries)), n, exact)
            /\ NoRounding(timeEntries) => out.totalHours = exact

\* a weekly summary of two projects, one with two tasks, whose sums round
C3_Witness ==
    /\ Weekly
    /\ Cardinality(DOMAIN out.projectSummaries) = 2
    /\ \E p \in DOMAIN out.projectSummaries :
          Cardinality(DOMAIN out.projectSummaries[p].TaskSummaries) = 2
    /\ ~NoRounding(timeEntries)

\* C4: the week of a reference date starts on the Monday on or before it
\* and ends on the Sunday 6 days later, so the date lies in the range.
C4_WeekRange ==
    (view = "week" /\ Resolved /\ navCount = 0) =>
        /\ Weekday(startDate) = 1
        /\ DayOf(startDate) <= DayOf(targetDate)
        /\ DayOf(targetDate) - DayOf(startDate) <= 6
        /\ Weekday(endDate) = 0
        /\ DayOf(endDate) = DayOf(startDate) + 6
        /\ DayOf(targetDate) <= DayOf(endDate)
        /\ params = [from |-> Format(startDate), to |-> Format(endDate)]

\* the week of a Sunday
C4_Witness ==
    /\ view = "week"
    /\ Resolved
    /\ Weekday(targetDate) = 0
    /\ DayOf(endDate) = DayOf(targetDate)

\* the length of a month, from the calendar rules
MonthLength(y, m) ==
    IF m \in {1, 3, 5, 7, 8, 10, 12} THEN 31
    ELSE IF m \in {4, 6, 9, 11} THEN 30
    ELSE IF (y % 4 = 0 /\ y % 100 # 0) \/ y % 400 = 0 THEN 29
    ELSE 28

\* C5: the month of a reference date runs from the first day of its month
\* to the last, whose day-of-month is the length of the month.
C5_MonthRange ==
    (view = "month" /\ Resolved /\ navCount = 0) =>
        LET y == Year(targetDate)
            m == Month(targetDate)
        IN  /\ Format(startDate) = <<y, m, 1>>
            /\ Format(endDate) = <<y, m, MonthLength(y, m)>>
            /\ params = [from |-> <<y, m, 1>>, to |-> <<y, m, MonthLength(y, m)>>]

\* the month of a day of February of a leap year
C5_Witness ==
    /\ view = "month"
    /\ Resolved
    /\ Month(targetDate) = 2
    /\ Day(targetDate) = 15
    /\ Day(endDate) = 29

\* the fiscal year start the configuration gives
Anchor == GetYearStartDate(appConfig)

\* C6: the fiscal year starts at the anchor of the reference date's
\* calendar year when the date is on or after that anchor, and at the
\* anchor of the previous calendar year when it is before.
C6_YearStart ==
    (view = "year" /\ Resolved) =>
        LET y == Year(targetDate)
            m == Anchor.month
            d == Anchor.day
            onOrAfter == DayOf(targetDate) >= DayNumber(y, m, d)
            startYear == IF onOrAfter THEN y ELSE y - 1
        IN  /\ startDate = Date(startYear, m, d)
            /\ (d <= MonthLength(y, m)) =>
                  (onOrAfter <=> (Month(targetDate) > m
                                    \/ (Month(targetDate) = m /\ Day(targetDate) >= d)))
            /\ (d <= MonthLength(startYear, m)) => Format(startDate) = <<startYear, m, d>>
            /\ params.from = Format(startDate)

\* anchor April 1, reference February 15: the start is April 1 of the
\* year before
C6_Witness ==
    /\ view = "year"
    /\ Resolved
    /\ appConfig.YearStartDate = MMDD(4, 1)
    /\ Format(targetDate) = <<FirstYear + 1, 2, 15>>
    /\ Format(startDate) = <<FirstYear, 4, 1>>

\* C7: the fiscal year ends the day before the next anchor, or today when
\* that day is after now: end = min(next anchor - 1 day, today).
C7_YearEnd ==
    (view = "year" /\ Resolved) =>
        LET lastDay == DayNumber(Year(startDate) + 1, Anchor.month, Anchor.day) - 1
        IN  /\ DayOf(endDate) = Min(lastDay, DayOf(clock))
            /\ (endDate = clock) <=> (lastDay * TicksPerDay > clock \/ lastDay * TicksPerDay = clock)
            /\ (endDate # clock) => endDate = lastDay * TicksPerDay
            /\ params.to = Format(endDate)

\* a calendar year in progress: the end is today
C7_Witness ==
    /\ view = "year"
    /\ Resolved
    /\ appConfig.YearStartDate = <<>>
    /\ Format(targetDate) = <<FirstYear + 1, 6, 1>>
    /\ Format(startDate) = <<FirstYear + 1, 1, 1>>
    /\ endDate = clock
    /\ Format(endDate) = <<FirstYear + 1, 6, 30>>

MonthStartOf(t) == Date(Year(t), Month(t), 1)

\* the calendar months that lie wholly in [start, end), by their first instants
WholeMonthsIn(start, end) ==
    {f \in {MonthStartOf(t) : t \in {d * TicksPerDay : d \in DayOf(start) .. DayOf(end)}} :
        start <= f /\ AddDate(f, 0, 1, 0) <= end}

\* C9's reading of monthsBetween
ClaimedMonths(start, end) ==
    IF end <= start THEN [whole |-> 0, num |-> 0, den |-> 1]
    ELSE IF end = MonthStartOf(end)
    THEN [whole |-> Cardinality(WholeMonthsIn(start, end)), num |-> 0, den |-> 1]
    ELSE [whole |-> Cardinality(WholeMonthsIn(start, end)), num |-> Day(end),
          den |-> MonthLength(Year(end), Month(end))]

\* C9: monthsBetween(start, end) is the number of whole calendar months in
\* [start, end) plus end.day / (days in end's month) for a trailing partial
\* month, and 0 when end <= start.
C9_MonthsAsClaimed ==
    out.kind = "months" => out.periodLength = ClaimedMonths(startDate, endDate)

\* index of the month of t, counted from year 0
MonthIndex(t) == Year(t) * 12 + Month(t)

\* C10: from the first day of a month to the first day of the month k >= 1
\* months later monthsBetween is exactly k, with no fraction; a complete
\* calendar month (its start to its end + 1 day) has length exactly 1.
C10_WholeMonths ==
    (out.kind = "months" /\ startDate = MonthStartOf(startDate)) =>
        /\ (endDate = MonthStartOf(endDate) /\ endDate > startDate) =>
              out.periodLength
                = [whole |-> MonthIndex(endDate) - MonthIndex(startDate), num |-> 0, den |-> 1]
        /\ (endDate = AddDate(EndOfMonth(startDate), 0, 0, 1)) =>
              out.periodLength = [whole |-> 1, num |-> 0, den |-> 1]

\* January 1 to April 1: three months
C10_Witness ==
    /\ out.kind = "months"
    /\ Format(startDate) = <<FirstYear + 1, 1, 1>>
    /\ endDate = Date(FirstYear + 1, 4, 1)
    /\ out.periodLength = [whole |-> 3, num |-> 0, den |-> 1]

\* x is the float64 nearest to n / d (d > 0): within half a quantum, or
\* within the relative error 2 ^ -FloatPrecision of a rounding
Rounded(x, n, d) ==
    /\ IsFloat(x)
    /\ \/ 2 * Abs(x * d - n) <= d
       \/ Abs(x * d - n) * Pow2(FloatPrecision) <= Abs(n)

\* a number of days is counted in quanta of 1 / DayUnits
DayUnits == 8 * UnitsPerHour

\* the monthly capacity in effect: the configured one when > 0, else 160 hours
EffectiveMonthlyCapacity ==
    IF appConfig.MonthlyCapacityHours > 0 THEN appConfig.MonthlyCapacityHours
    ELSE 160 * UnitsPerHour

\* C11: in the monthly and yearly report periodLengthMonths =
\* monthsBetween(periodStart, periodEnd + 1 day), periodCapacityHours =
\* effectiveMonthlyCapacity * periodLengthMonths, overtimeOrRemainingHours =
\* billableHours - periodCapacityHours and overtimeOrRemainingDays =
\* overtimeOrRemainingHours / 8, each as the float64 operation gives it;
\* capacity 160 and 180 billable hours over one month give 20 hours and 2.5
\* days.
C11_CapacityReport ==
    Reported =>
        LET m == out.capacity
            len == out.periodLength
        IN  /\ len = calculateMonthsBetween(startDate, endDate + TicksPerDay)
            /\ \E part \in 0 .. MonthUnits :
                  /\ Rounded(part, len.num * MonthUnits, len.den)
                  /\ Rounded(m.periodMonths, len.whole * MonthUnits + part, 1)
            /\ m.monthlyCapacity = EffectiveMonthlyCapacity
            /\ Rounded(m.periodCapacity, EffectiveMonthlyCapacity * m.periodMonths, MonthUnits)
            /\ (len.num = 0 /\ IsFloat(EffectiveMonthlyCapacity * len.whole))
                  => m.periodCapacity = EffectiveMonthlyCapacity * len.whole
            /\ Rounded(m.leaveHours, out.totals.billableHours - m.periodCapacity, 1)
            /\ m.leaveDays * 8 * UnitsPerHour = m.leaveHours * DayUnits
            /\ m.overtime <=> out.totals.billableHours >= m.periodCapacity
            /\ (/\ EffectiveMonthlyCapacity = 160 * UnitsPerHour
                /\ out.totals.billableHours = 180 * UnitsPerHour
                /\ len = [whole |-> 1, num |-> 0, den |-> 1])
                  => /\ m.leaveHours = 20 * UnitsPerHour
                     /\ 2 * m.leaveDays = 5 * DayUnits

\* capacity 160, 180 billable of 240 hours over one month: 20 hours, 2.5 days
C11_Witness ==
    /\ Reported
    /\ view = "month"
    /\ appConfig.MonthlyCapacityHours <= 0
    /\ out.totals.totalHours = 240 * UnitsPerHour
    /\ out.totals.billableHours = 180 * UnitsPerHour
    /\ out.capacity.periodCapacity = 160 * UnitsPerHour
    /\ out.capacity.leaveHours = 20 * UnitsPerHour
    /\ 2 * out.capacity.leaveDays = 5 * DayUnits

\* the percentages of a monthly or yearly report
ReportPercentages ==
    LET p == out.percentages
    IN  {p.totalBillable.percentOfTotal, p.totalBillable.percentOfCapacity}
          \cup {p.billableTasks[t].percentOfTotal : t \in DOMAIN p.billableTasks}
          \cup {p.billableTasks[t].percentOfCapacity : t \in DOMAIN p.billableTasks}
          \cup {p.projects[q] : q \in DOMAIN p.projects}

\* C12: no percentage of a report is computed with a zero denominator:
\* when totalHours or periodCapacityHours is 0 the percentages that divide
\* by it are skipped or reported as undefined, never as NaN or infinity.
C12_NoZeroDenominator ==
    Reported => \A x \in ReportPercentages : x.class = "finite"

\* C13: when a fetch succeeds with zero entries, the day, week, month or
\* year view reports 'no entries' without failing and computes no sum,
\* percentage or capacity metric; the week and month views then offer the
\* navigation prompt, the day and year views end.
C13_EmptyPeriod ==
    [][(/\ pc' # "fatal"
        /\ ~(pc = "nav" /\ pc' = "done")
        /\ timeEntries' = <<>>)
         => (/\ out' = [kind |-> "empty"]
             /\ params' # <<>>
             /\ pc' = IF view' \in {"week", "month"} THEN "nav" ELSE "done")]_vars

\* a month without entries reached by navigation, the prompt offered again
C13_Witness ==
    /\ view = "month"
    /\ navCount > 0
    /\ Resolved
    /\ timeEntries = <<>>
    /\ out = [kind |-> "empty"]
    /\ pc = "nav"

\* the year_start_date setting of the configuration
Setting == appConfig.YearStartDate

\* a value of the form MM-DD: two digits, a dash, two digits
IsMMDD(s) ==
    /\ Len(s) = 5
    /\ s[3] = "-"
    /\ \A i \in {1, 2, 4, 5} : IsDigit(s[i])

\* a decimal numeral as strconv.Atoi reads it: digits after an optional sign
IsNumeral(s) ==
    LET body == IF s # <<>> /\ s[1] \in {"+", "-"} THEN Tail(s) ELSE s
    IN  body # <<>> /\ \A i \in 1 .. Len(body) : IsDigit(body[i])

NumeralVal(s) ==
    IF s[1] = "-" THEN -DigitsVal(Tail(s)) ELSE IF s[1] = "+" THEN DigitsVal(Tail(s)) ELSE DigitsVal(s)

Dashes(s) == {i \in 1 .. Len(s) : s[i] = "-"}

\* a value with exactly one dash, between a month numeral in 1 .. 12 and a
\* day numeral in 1 .. 31
IsMonthDashDay(s) ==
    /\ Cardinality(Dashes(s)) = 1
    /\ LET i == CHOOSE j \in Dashes(s) : TRUE
           mm == SubSeq(s, 1, i - 1)
           dd == SubSeq(s, i + 1, Len(s))
       IN  /\ IsNumeral(mm) /\ NumeralVal(mm) \in 1 .. 12
           /\ IsNumeral(dd) /\ NumeralVal(dd) \in 1 .. 31

\* the yearly summary stops before it resolves a period or fetches
AbortsBeforeResolving ==
    view = "year" => (pc = "fatal" /\ ~Resolved /\ timeEntries = <<>> /\ out = [kind |-> "none"])

MaxDayOf(month) == IF month = 2 THEN 29 ELSE IF month \in {4, 6, 9, 11} THEN 30 ELSE 31

\* C15: a year start whose day is invalid for its month ("02-30") is
\* rejected when the configuration is loaded: no run of the yearly summary
\* starts from, or resolves a period with, such a configuration.
C15_InvalidDayRejectedAtLoad ==
    LET r == GetYearStartDate(appConfig)
    IN  (view = "year" /\ ~r.err /\ r.day > MaxDayOf(r.month)) => (pc = "fatal" /\ ~Resolved)

\* s is the decimal numeral of n, without a sign or leading zeros
IsDecimalOf(s, n) ==
    /\ s # <<>>
    /\ \A i \in 1 .. Len(s) : IsDigit(s[i])
    /\ (Len(s) > 1 => s[1] # "0")
    /\ DigitsVal(s) = n

\* C18: the yearly label is the calendar year of the resolved period start
\* when the year starts on January 1, and "<anchorYear>/<anchorYear + 1>"
\* otherwise, anchorYear being the year of the resolved period start.
C18_YearLabel ==
    (view = "year" /\ Resolved) =>
        LET anchorYear == Year(startDate)
            slashes == {i \in 1 .. Len(yearLabel) : yearLabel[i] = "/"}
        IN  IF Anchor.month = 1 /\ Anchor.day = 1
            THEN IsDecimalOf(yearLabel, anchorYear)
            ELSE /\ Cardinality(slashes) = 1
                 /\ LET i == CHOOSE j \in slashes : TRUE
                    IN  /\ IsDecimalOf(SubSeq(yearLabel, 1, i - 1), anchorYear)
                        /\ IsDecimalOf(SubSeq(yearLabel, i + 1, Len(yearLabel)), anchorYear + 1)

\* anchor April 1, reference February 15: the label of the year before
C18_Witness ==
    /\ view = "year"
    /\ Resolved
    /\ appConfig.YearStartDate = MMDD(4, 1)
    /\ Format(targetDate) = <<FirstYear + 1, 2, 15>>
    /\ yearLabel = Itoa(FirstYear) \o <<"/">> \o Itoa(FirstYear + 1)

\* table lists exactly the names of keys, in strictly ascending order
SortedTable(table, keys) ==
    /\ {table[i] : i \in 1 .. Len(table)} = keys
    /\ \A i \in 1 .. (Len(table) - 1) : NameRank(table[i]) < NameRank(table[i + 1])

\* the task rows of a project in the first table of the weekly summary
RowsOf(project) == LET In(row) == row[1] = project IN SelectSeq(out.rows, In)

\* C19: every summary table (projects, tasks within a project, tasks
\* across projects, billable tasks) is printed in ascending order of name,
\* whatever the order of the entries.
C19_SortedTables ==
    /\ out.kind = "daily" =>
          SortedTable(out.taskNames, {timeEntries[i].task : i \in 1 .. Len(timeEntries)})
    /\ out.kind = "weekly" =>
          /\ SortedTable(out.projectNames, {timeEntries[i].project : i \in 1 .. Len(timeEntries)})
          /\ SortedTable(out.taskNames, {timeEntries[i].task : i \in 1 .. Len(timeEntries)})
          /\ \A i \in 1 .. (Len(out.rows) - 1) :
                NameRank(out.rows[i][1]) <= NameRank(out.rows[i + 1][1])
          /\ \A p \in {timeEntries[i].project : i \in 1 .. Len(timeEntries)} :
                SortedTable([k \in 1 .. Len(RowsOf(p)) |-> RowsOf(p)[k][2]],
                            {EntriesOf(p)[k].task : k \in 1 .. Len(EntriesOf(p))})
    /\ out.kind = "report" =>
          /\ SortedTable(out.projectNames, {timeEntries[i].project : i \in 1 .. Len(timeEntries)})
          /\ SortedTable(out.billableTaskNames,
                         {BillableEntries[i].task : i \in 1 .. Len(BillableEntries)})

\* a weekly summary of entries supplied in descending order of project and task
C19_Witness ==
    /\ out.kind = "weekly"
    /\ Len(timeEntries) = 3
    /\ timeEntries[1].project = "beta" /\ timeEntries[1].task = "ops"
    /\ timeEntries[2].project = "alpha" /\ timeEntries[2].task = "ops"
    /\ timeEntries[3].project = "alpha" /\ timeEntries[3].task = "dev"
    /\ out.projectNames = <<"alpha", "beta">>
    /\ out.taskNames = <<"dev", "ops">>
    /\ out.rows = <<<<"alpha", "dev">>, <<"alpha", "ops">>, <<"beta", "ops">>>>

\* C16: running a view twice on the same unmodified list of entries, with
\* the same configuration and the same 'now', gives identical results (the
\* grouping, the classification, the capacity report, the tables), and the
\* list of entries is left as it was.
C16_Deterministic ==
    [][(rerun = "none" /\ rerun' = "same")
         => (/\ out' = out
             /\ timeEntries' = timeEntries
             /\ <<startDate', endDate', params', yearLabel'>>
                  = <<startDate, endDate, params, yearLabel>>)]_vars

\* a weekly summary of two projects whose sums round, computed twice
C16_Witness ==
    /\ rerun = "same"
    /\ out.kind = "weekly"
    /\ Cardinality(DOMAIN out.projectSummaries) = 2
    /\ ~NoRounding(timeEntries)

\* the sums of a view: per project, per task, total and billable
SumsOf(o) ==
    CASE o.kind = "daily" -> <<o.taskHours, o.totalHours>>
      [] o.kind = "weekly" -> <<o.projectSummaries, o.taskHours, o.totalHours>>
      [] o.kind = "report" -> <<o.totals>>

\* two maps of sums of the same entries, taken in two orders
MapsWithinRounding(a, b, n, exact) ==
    /\ DOMAIN a = DOMAIN b
    /\ \A k \in DOMAIN a : WithinRounding(a[k], b[k], n, exact)

\* C17 as stated: for every permutation of a list of entries the
\* per-project totals, the per-task sums, the total hours and the billable
\* hours are the same.
C17_SameSumsInAnyOrder ==
    [][(rerun = "none" /\ rerun' = "reordered") => SumsOf(out') = SumsOf(out)]_vars

\* C17 as amended: for every permutation of a list of entries the projects
\* and tasks are the same, and the per-project totals, the per-task sums,
\* the total hours and the billable hours are the same when no float64
\* addition rounds, and equal within the rounding error of the additions
\* otherwise.
C17_SameSumsWithinRounding ==
    [][(rerun = "none" /\ rerun' = "reordered") =>
          LET n == Len(timeEntries)
              exact == ExactSum(HoursOf(timeEntries))
              a == out
              b == out'
          IN  /\ b.kind = a.kind
              /\ ExactSum(HoursOf(timeEntries')) = exact
              /\ NoRounding(timeEntries) => SumsOf(b) = SumsOf(a)
              /\ a.kind \in {"daily", "weekly"} =>
                    WithinRounding(a.totalHours, b.totalHours, n, exact)
              /\ a.kind \in {"daily", "weekly"} =>
                    MapsWithinRounding(a.taskHours, b.taskHours, n, exact)
              /\ a.kind = "weekly" =>
                    /\ DOMAIN a.projectSummaries = DOMAIN b.projectSummaries
                    /\ \A q \in DOMAIN a.projectSummaries :
                          /\ WithinRounding(a.projectSummaries[q].TotalHours,
                                            b.projectSummaries[q].TotalHours, n, exact)
                          /\ MapsWithinRounding(a.projectSummaries[q].TaskSummaries,
                                                b.projectSummaries[q].TaskSummaries, n, exact)
              /\ a.kind = "report" =>
                    /\ WithinRounding(a.totals.totalHours, b.totals.totalHours, n, exact)
                    /\ WithinRounding(a.totals.billableHours, b.totals.billableHours, n, exact)
                    /\ MapsWithinRounding(a.totals.taskSummaries, b.totals.taskSummaries, n, exact)
                    /\ MapsWithinRounding(a.totals.projectHours, b.totals.projectHours, n, exact)
                    /\ MapsWithinRounding(a.totals.billableTaskSummaries,
                                          b.totals.billableTaskSummaries, n, exact)
                    /\ MapsWithinRounding(a.totals.nonBillableTaskSummaries,
                                          b.totals.nonBillableTaskSummaries, n, exact)]_vars

\* a report computed again from the same entries in another order, the
\* sums rounding
C17_Witness ==
    /\ rerun = "reordered"
    /\ out.kind = "report"
    /\ out.totals.billableTaskSummaries # EmptyMap
    /\ out.totals.nonBillableTaskSummaries # EmptyMap
    /\ ~NoRounding(timeEntries)

\* what the line read in this round means to the user of the interface
Entered == CHOOSE t \in SelectionInputs : t.line = input'

\* entry i (counted from 1) is selected
IsSelected(sel, i) == (i - 1) \in DOMAIN sel /\ sel[i - 1] = TRUE

\* C20: in every round of the selection loop of delete, whatever was
\* entered before: a number i with 1 <= i <= number of entries toggles the
\* selection of entry i and changes no other entry; 'a' selects all
\* entries; 'n' deselects all entries; any other input (a number out of
\* range, unknown text, nothing) leaves the selection of every entry as it
\* was and stays in the loop; 'd' leaves the loop with the selection as it
\* was; 'q' ends the run with nothing deleted.  A letter counts in either
\* case and with blanks around it, a number by its value.
C20_SelectionLoop ==
    [][pc = "select" =>
          LET n == Len(timeEntries)
              entries == 1 .. n
              before(i) == IsSelected(selectedIndices, i)
              after(i) == IsSelected(selectedIndices', i)
              unchanged == \A i \in entries : after(i) = before(i)
              inRange == Entered.key = "number" /\ Entered.num \in entries
          IN  /\ timeEntries' = timeEntries
              /\ inRange =>
                    /\ after(Entered.num) = ~before(Entered.num)
                    /\ \A i \in entries \ {Entered.num} : after(i) = before(i)
                    /\ pc' = "select"
              /\ Entered.key = "a" => (\A i \in entries : after(i)) /\ pc' = "select"
              /\ Entered.key = "n" => (\A i \in entries : ~after(i)) /\ pc' = "select"
              /\ (Entered.key = "other" \/ (Entered.key = "number" /\ ~inRange)) =>
                    unchanged /\ pc' = "select"
              /\ Entered.key = "d" =>
                    /\ unchanged
                    /\ pc' \in {"confirm", "done"}
                    /\ pc' = "confirm" <=> \E i \in entries : before(i)
                    /\ pc' = "confirm" =>
                          \A i \in entries :
                             before(i) <=> \E k \in 1 .. Len(out'.selectedEntries) :
                                              out'.selectedEntries[k] = i - 1
              /\ Entered.key = "q" => unchanged /\ pc' = "done" /\ out'.kind = "cancelled"
              /\ \A i \in DOMAIN selectedIndices' : i + 1 \in entries]_vars

\* three entries, the third selected and deselected again, the first
\* selected, and the second just selected by entering +2
C20_Witness ==
    /\ pc = "select"
    /\ Len(timeEntries) = 3
    /\ input = <<"+", "2", "\n">>
    /\ IsSelected(selectedIndices, 1)
    /\ IsSelected(selectedIndices, 2)
    /\ ~IsSelected(selectedIndices, 3)
    /\ 2 \in DOMAIN selectedIndices

\* the answers to "Are you sure you want to delete these entries? (y/n)"
\* that are 'y' or 'yes' (in either case, blanks around them not counting)
SaidYes ==
    {<<"y", "\n">>, <<"y", "e", "s", "\n">>, <<"Y", "\n">>, <<" ", "Y", "E", "S", " ", "\n">>}

\* the calls made in this step
NewCalls == SubSeq(calls', Len(calls) + 1, Len(calls'))

\* the calls of one operation among some calls
CallsOf(op, cs) == SelectSeq(cs, LAMBDA c : c.op = op)

\* the DeleteTimeEntry calls made so far, and those made in this step
Deletes == CallsOf("DeleteTimeEntry", calls)
NewDeletes == CallsOf("DeleteTimeEntry", NewCalls)

\* C21: a DeleteTimeEntry call is made only for an entry the user selected
\* and only after an explicit confirmation.  In interactive mode it is made
\* only at the confirmation, on the answer 'y' or 'yes', and for entries
\* marked selected when 'd' was entered: so none is made after 'q', after
\* 'd' with nothing selected, or after any other answer.  In direct mode it
\* is made only for the id given, after the entry was fetched and "Delete
\* this time entry" was chosen.
C21_DeleteOnlyConfirmed ==
    /\ [](out.kind = "cancelled" => Deletes = <<>>)
    /\ [][/\ Len(calls') >= Len(calls)
          /\ SubSeq(calls', 1, Len(calls)) = calls
          /\ NewDeletes # <<>> =>
                \/ /\ pc = "confirm"
                   /\ input' \in SaidYes
                   /\ \A k \in 1 .. Len(NewDeletes) :
                         IsSelected(selectedIndices, NewDeletes[k].id + 1)
                \/ /\ pc = "choose"
                   /\ out.kind = "details"
                   /\ choice' = "Delete this time entry"
                   /\ calls = <<Call("GetTimeEntry", out.id, TRUE)>>
                   /\ NewDeletes = <<Call("DeleteTimeEntry", out.id, NewDeletes[1].ok)>>]_vars

\* two of three entries selected, the deletion confirmed with " YES ", and
\* the two calls made
C21_Witness ==
    /\ pc = "done"
    /\ Len(timeEntries) = 3
    /\ input = <<" ", "Y", "E", "S", " ", "\n">>
    /\ Len(Deletes) = 2
    /\ Deletes[1].id = 0 /\ Deletes[2].id = 2

\* the entries marked selected, as places in the list, in list order
SelectedPlaces == SelectSeq([i \in 1 .. Len(timeEntries) |-> i], LAMBDA i : IsSelected(selectedIndices, i))

\* C26: after a confirmed interactive delete exactly one DeleteTimeEntry
\* call was made for each selected entry, in list order, whether or not an
\* earlier call failed, and the summary has Successful + Failed = Total =
\* the number of selected entries, Successful and Failed being the numbers
\* of calls that succeeded and failed.
C26_OneAttemptEach ==
    out.kind = "deleted" =>
        /\ Len(Deletes) = Len(SelectedPlaces)
        /\ \A k \in 1 .. Len(Deletes) : Deletes[k].id = SelectedPlaces[k] - 1
        /\ out.total = Len(SelectedPlaces)
        /\ out.successCount + out.failCount = out.total
        /\ out.successCount = Cardinality({k \in 1 .. Len(Deletes) : Deletes[k].ok})
        /\ out.failCount = Cardinality({k \in 1 .. Len(Deletes) : ~Deletes[k].ok})

\* three entries deleted, the call for the first one failing and the two
\* after it succeeding
C26_Witness ==
    /\ out.kind = "deleted"
    /\ Len(Deletes) = 3
    /\ ~Deletes[1].ok /\ Deletes[2].ok /\ Deletes[3].ok
    /\ out.failCount = 1

\* C28: in the selection loop of delete the count printed as "N of M
\* entries selected" is the number of entries marked selected at that
\* moment, and M the number of entries.
C28_CountIsSelected ==
    (pc = "select" /\ out.kind = "selecting") =>
        /\ out.count = Len(SelectedPlaces)
        /\ out.of = Len(timeEntries)

\* C30: the selection loop of delete is left when the input has ended or
\* cannot be read: a round in which ReadString returned nothing (the empty
\* string it gives at the end of the input; an empty line is "\n") does
\* not go back to the prompt.
C30_LeavesLoopAtEndOfInput ==
    [][(pc = "select" /\ input' = <<>>) => pc' # "select"]_vars

\* the range of the last fetch among some calls
LastRange(cs) == cs[Len(cs)].id

\* C25: stepping keeps the period well formed.  A Previous or Next choice
\* at the navigation prompt makes exactly one fetch, of the range then
\* displayed: in the week view a Monday to the Sunday 6 days later, 7 days
\* before or after the range left; in the month view the 1st to the last
\* day of the month before or after the month left.  A choice opposite to
\* the one before it gives the range of two fetches ago.  Exit, or a failed
\* prompt, ends the navigation with no further fetch and the range kept.
C25_SteppingKeepsPeriod ==
    [][(pc = "nav" /\ view \in {"week", "month"}) =>
          IF choice' \in {"Previous", "Next"}
          THEN LET d == IF choice' = "Previous" THEN -1 ELSE 1
                   y == Year(startDate')
                   m == Month(startDate')
               IN  /\ Len(calls') = Len(calls) + 1
                   /\ SubSeq(calls', 1, Len(calls)) = calls
                   /\ calls'[Len(calls')].op = "GetTimeEntries"
                   /\ LastRange(calls') = [from |-> Format(startDate'), to |-> Format(endDate')]
                   /\ params' = LastRange(calls')
                   /\ view' = view
                   /\ view = "week" =>
                         /\ Weekday(startDate') = 1
                         /\ Weekday(endDate') = 0
                         /\ DayOf(endDate') = DayOf(startDate') + 6
                         /\ DayOf(startDate') = DayOf(startDate) + 7 * d
                   /\ view = "month" =>
                         /\ Day(startDate') = 1
                         /\ Format(endDate') = <<y, m, MonthLength(y, m)>>
                         /\ MonthIndex(startDate') = MonthIndex(startDate) + d
                   /\ (navCount >= 1 /\ choice # choice') =>
                         LastRange(calls') = calls[Len(calls) - 1].id
          ELSE /\ choice' \in {"Exit", PromptFailed}
               /\ pc' = "done"
               /\ calls' = calls
               /\ <<startDate', endDate', params'>> = <<startDate, endDate, params>>]_vars

\* the month view of 1 January, Previous chosen and then Next: December of
\* the year before was fetched, and then January again
C25_Witness ==
    /\ view = "month"
    /\ navCount = 2
    /\ choice = "Next"
    /\ Len(calls) = 3
    /\ calls[2].id.from = <<FirstYear, 12, 1>>
    /\ calls[2].id.to = <<FirstYear, 12, 31>>
    /\ calls[3].id = calls[1].id
    /\ out.kind # "none"

\* C29: for a reference date not later than today and every accepted
\* fiscal year start, days that do not exist in the month included, the
\* resolved year range contains the reference date: start <= referenceDate
\* <= end, as days.
C29_YearContainsReference ==
    (view = "year" /\ Resolved /\ DayOf(targetDate) <= DayOf(clock)) =>
        /\ DayOf(startDate) <= DayOf(targetDate)
        /\ DayOf(targetDate) <= DayOf(endDate)
        /\ params = [from |-> Format(startDate), to |-> Format(endDate)]

\* the year start "02-30", which time.Date turns into 1 March in a leap
\* year and 2 March in the others: 1 March 2023 is the last day of the
\* year that began on 2 March 2022
C29_Witness ==
    /\ view = "year"
    /\ Resolved
    /\ appConfig.YearStartDate = MMDD(2, 30)
    /\ Format(targetDate) = <<FirstYear, 3, 1>>
    /\ Format(startDate) = <<FirstYear - 1, 3, 2>>
    /\ Format(endDate) = <<FirstYear, 3, 1>>

\* a string that reads as an integer: digits after an optional sign
IsInteger(s) ==
    \/ s # <<>> /\ \A i \in 1 .. Len(s) : IsDigit(s[i])
    \/ Len(s) >= 2 /\ s[1] \in {"+", "-"} /\ \A i \in 2 .. Len(s) : IsDigit(s[i])

\* the value of such a string
IntegerOf(s) ==
    IF s[1] = "-" THEN -DigitsVal(Tail(s))
    ELSE IF s[1] = "+" THEN DigitsVal(Tail(s))
    ELSE DigitsVal(s)

\* the places of the colons of a string
Colons(s) == {i \in 1 .. Len(s) : s[i] = ":"}

\* the text before and after the first colon
HoursPart(s) == SubSeq(s, 1, (CHOOSE i \in Colons(s) : \A j \in Colons(s) : i <= j) - 1)
MinutesPart(s) == SubSeq(s, (CHOOSE i \in Colons(s) : \A j \in Colons(s) : i <= j) + 1, Len(s))

\* 'H:M' with two integer parts and 0 <= M <= 59
IsHM(s) ==
    /\ Cardinality(Colons(s)) = 1
    /\ IsInteger(HoursPart(s))
    /\ IsInteger(MinutesPart(s))
    /\ IntegerOf(MinutesPart(s)) \in 0 .. 59

\* C23: every duration accepted yields non-negative hours.  parseDuration
\* accepts exactly the inputs 'H:M' with two integer parts and 0 <= M <=
\* 59, returns H + M/60 for them, and never returns a negative value
\* without an error.
C23_DurationNonNegative ==
    out.kind = "duration" =>
        LET r == out.result
            H == HoursPart(input)
            M == MinutesPart(input)
        IN  /\ ~r.err <=> IsHM(input)
            /\ ~r.err => r.whole * 60 * r.den + r.num * 60 = (IntegerOf(H) * 60 + IntegerOf(M)) * r.den
            /\ ~r.err => r.whole * r.den + r.num >= 0

\* the create requests sent so far
Creates == CallsOf("CreateTimeEntry", calls)

\* a -p that names no project of the configuration
ProjectMismatch ==
    /\ locals.projectName # ""
    /\ \A i \in 1 .. Len(appConfig.Projects) : appConfig.Projects[i].Name # locals.projectName

\* a -a that names no task of the selected project
TaskMismatch ==
    /\ locals.taskName # ""
    /\ locals.selectedProject # 0
    /\ LET tasks == appConfig.Projects[locals.selectedProject].Tasks
       IN  \A i \in 1 .. Len(tasks) : tasks[i].Name # locals.taskName

\* a -t that is not a valid HH:MM value
DurationInvalid == locals.timeValue # <<>> /\ ~IsHM(locals.timeValue)

\* C22: in a run of create without -D, when the project name (-p) matches
\* no project of the configuration, or the task name (-a) no task of the
\* selected project, or the duration (-t) is not a valid HH:MM value, or a
\* prompt failed, no create request is sent to the remote service.
C22_NoCreateOnInvalid ==
    (view = "create" /\ ~locals.useDefaultMode
        /\ (ProjectMismatch \/ TaskMismatch \/ DurationInvalid
               \/ (out.kind # "none" /\ out.message = "prompt failed"))) =>
        Creates = <<>>

\* the configuration that differs from members only in the token: the
\* member that gives the token has the value t
WithToken(members, t) ==
    [members EXCEPT ![LastWith(members, TokenKeys)].value = t]

\* C24: the config command masks sensitive data by default.  Without
\* --show-sensitive what is printed does not depend on the API token: a
\* configuration that differs only in the token prints the same, the token
\* shown as the fixed mask.  With --show-sensitive the token is printed
\* unchanged.
C24_TokenMasked ==
    (out.kind = "config" /\ KeysOf(locals.harvestAPI) \cap TokenKeys # {}) =>
        LET members == locals.harvestAPI
            key == members[LastWith(members, TokenKeys)].key
        IN  IF locals.showSensitive
            THEN out.contents[key] = <<"\"">> \o DecodedToken(members) \o <<"\"">>
            ELSE /\ \A t \in ConfigValues :
                       displayConfig(WithToken(members, t), FALSE) = out.contents
                 /\ out.contents[key] = <<"\"">> \o Mask \o <<"\"">>

\* the update requests sent so far, and those sent in this step
Updates == CallsOf("UpdateTimeEntry", calls)
NewUpdates == CallsOf("UpdateTimeEntry", NewCalls)

\* C27: the update command sends an update request only after the user
\* selected an entry, chose "Update this time entry", was shown the summary
\* of changes and chose "Save changes": the one request of the step targets
\* the id of the selected entry.  After "Cancel update" at either step, or
\* when no entries were found for the date, no update request was sent.
C27_UpdateOnlySaved ==
    /\ []((view = "update" /\ out.kind \in {"cancelled", "empty"}) => Updates = <<>>)
    /\ []((view = "update" /\ choice = "Cancel update") => Updates = <<>>)
    /\ [][NewUpdates # <<>> =>
             /\ pc = "save"
             /\ locals.selectedEntry \in 1 .. Len(timeEntries)
             /\ choice = "Update this time entry"
             /\ out.kind = "summary"
             /\ out.id = locals.selectedEntry - 1
             /\ choice' = "Save changes"
             /\ Updates = <<>>
             /\ Len(NewUpdates) = 1
             /\ NewUpdates[1].id = locals.selectedEntry - 1]_vars

\* the second of three entries selected, edited and saved
C27_Witness ==
    /\ view = "update"
    /\ out.kind = "updated"
    /\ Len(timeEntries) = 3
    /\ locals.selectedEntry = 2
    /\ Updates = <<Call("UpdateTimeEntry", 1, TRUE)>>
    /\ choice = "Save changes"

====
